---- MODULE Spec2Model ----
(***************************************************************************)
(* State-machine model of the racing_post_scraper crawling pipeline:       *)
(*   - scrape_races (scripts/rpscrape.py): the checkpointed scrape loop,   *)
(*     its output writer and its progress file, across process kills and   *)
(*     re-runs;                                                            *)
(*   - NetworkClient.get (scripts/utils/network.py): the deadline-bounded  *)
(*     retry loop;                                                         *)
(*   - calculate_backoff (scripts/utils/exceptions.py);                    *)
(*   - get_race_urls, get_race_urls_date and load_or_save_urls             *)
(*     (scripts/rpscrape.py): discovery and the url cache;                 *)
(*   - prepare_betfair (scripts/rpscrape.py), Betfair and get_data         *)
(*     (scripts/utils/betfair.py): the price archive fetcher, its index    *)
(*     and its cache.                                                      *)
(* Six specifications share the module: ScrapeSpec, GetSpec, GetLongSpec   *)
(* (one call against a server that only answers retryable statuses, with   *)
(* unit delays, long enough for 1024 retries), BackoffSpec, DiscoverSpec   *)
(* and PriceSpec.  Each one moves only its own variables.                  *)
(***************************************************************************)
EXTENDS Integers, Sequences, FiniteSets, TLC

VARIABLES
    \* ---- scrape_races ----
    pc,             \* position of the process inside scrape_races
    runs,           \* number of processes started so far
    progress,       \* paths.progress: "absent", "" or a URL
    outExists,      \* paths.output.exists()
    outDisk,        \* rows of paths.output that reached the disk
    outBuf,         \* rows written to f that are still in the writer's buffer
    last_url,       \* local last_url: "None", "" or a URL
    todo,           \* local race_urls after the resume slice
    resumed,        \* the slice at line 191 succeeded
    append,         \* local append
    idx,            \* index in todo of the URL of the current iteration
    row,            \* number of rows of the current race handed to f.write
    fetched,        \* URLs given to client.get by this process, in order
    scraped_races,  \* local scraped_races (the URL of each descriptor)
    ckptLog,        \* URLs this process wrote to the progress file, in order
    emitted,        \* URLs this process handed a row of to f.write
    failure,        \* what ended the latest iteration early ("none" if nothing)
    \* ---- NetworkClient.get ----
    scenario,       \* which callers and server the client meets (see CallArgs)
    gpc,            \* position inside get
    now,            \* datetime.now()
    calls,          \* get calls made on this client
    identity,       \* browser the session impersonates
    max_hours, base_delay, max_delay,   \* arguments of the call
    deadline, last_error, last_status, attempt, response,   \* locals of get
    delay,          \* argument of the pending sleep
    result,         \* what the call returned or raised
    started,        \* HTTP attempts started by this call
    sleeps,         \* sleeps performed by this call
    lastSeen,       \* outcome of the latest attempt of this call
    earlierRetry,   \* every earlier attempt of this call ended retryable or in error
    sawFinal,       \* this call received a non-retryable status
    sawError,       \* this call met a transport error
    prevStatus,     \* status of the latest response this client received
    prevIdentity,   \* identity that request was sent with
    \* ---- calculate_backoff ----
    bpc, b_attempt, b_base, b_max, b_u, b_result,
    \* ---- main: discovery and the url cache ----
    dpc,            \* position of the process inside main's discovery phase
    d_runs,         \* number of processes started so far
    d_strategy,     \* "year" (get_race_urls) or "date" (get_race_urls_date)
    d_i,            \* index of the next index query of the builder
    d_urls,         \* local urls of the builder (a set of strings)
    d_adds,         \* calls of urls.add made by the builder
    d_added,        \* every string given to urls.add by the builder
    d_built,        \* what the builder returned
    d_calls,        \* builder invocations of this process
    d_hadCache,     \* path.exists() at line 130 of this process
    d_cacheExists,  \* paths.urls exists
    d_cache,        \* text of paths.urls
    d_saved,        \* list of the latest write_text that completed, or "none"
    d_result,       \* race_urls of main (what load_or_save_urls returned)
    d_end,          \* why the process ended early ("none" if it has not)
    \* ---- prepare_betfair, Betfair, get_data ----
    fpc,            \* position of the process inside prepare_betfair
    f_runs,         \* number of processes started so far
    f_hadCache,     \* paths.betfair.exists() at line 152 of this process
    f_cacheExists,  \* paths.betfair exists
    f_cache,        \* data lines of paths.betfair
    f_k,            \* index in self.urls of the file being fetched
    f_browser,      \* local browser of get_data
    f_loop,         \* iterations of the for loop of get_data that have run
    f_reqs,         \* requests sent by this get_data call
    f_last,         \* status of the latest response of this call (0: none)
    f_after,        \* requests sent since the first 429 or 520 of this call
    f_blockedAs,    \* identity of the request that got the 403 being retried
    f_slept,        \* seconds of the latest sleep of this call (0: none)
    f_out,          \* how the latest get_data call ended
    f_rows,         \* self.rows
    f_data,         \* self.data
    f_net,          \* requests to the price archive made by this process
    f_done,         \* get_data calls of this process that have ended
    f_fetchedAtOpen, \* value of f_done when the cache file was created
    \* ---- normalize_venue ----
    v_pc,           \* "input", then "done" once normalize_venue was applied
    v_name,         \* a venue name
    v_variant,      \* the same name written differently
    v_out,          \* normalize_venue of v_name and of v_variant
    \* ---- match_race_to_market ----
    mr_pc,          \* "input", then "done" once the function has returned
    mr_venue,       \* race_venue
    mr_time,        \* race_time
    mr_markets,     \* betfair_markets
    mr_result,      \* the value returned: <<>> for None, else <<market>>
    \* ---- match_races_to_betfair ----
    bm_pc,          \* position inside match_races_to_betfair
    bm_races,       \* races
    bm_markets,     \* betfair_markets
    bm_i,           \* index of the race the for loop is at
    bm_market,      \* market of the race at hand: <<>> or <<market>>
    races_matched,
    total_runners_matched,
    bm_stats,       \* the dict returned
    bm_log,         \* what happened to each race taken so far
    \* ---- get_profiles ----
    pf_pc,          \* position inside get_profiles
    pf_i,           \* index of the url the for loop is at
    profiles,       \* the dict being built: horseUid -> provenance
    pf_log,         \* the response to each url taken and how the pass ended
    pf_exc          \* exception that left get_profiles

scrapeVars == <<pc, runs, progress, outExists, outDisk, outBuf, last_url, todo,
                resumed, append, idx, row, fetched, scraped_races, ckptLog,
                emitted, failure>>
getVars == <<scenario, gpc, now, calls, identity, max_hours, base_delay, max_delay,
             deadline, last_error, last_status, attempt, response, delay,
             result, started, sleeps, lastSeen, earlierRetry, sawFinal,
             sawError, prevStatus, prevIdentity>>
backoffVars == <<bpc, b_attempt, b_base, b_max, b_u, b_result>>
discoverVars == <<dpc, d_runs, d_strategy, d_i, d_urls, d_adds, d_added,
                  d_built, d_calls, d_hadCache, d_cacheExists, d_cache,
                  d_saved, d_result, d_end>>
priceVars == <<fpc, f_runs, f_hadCache, f_cacheExists, f_cache, f_k, f_browser,
               f_loop, f_reqs, f_last, f_after, f_blockedAs, f_slept, f_out,
               f_rows,
               f_data, f_net, f_done, f_fetchedAtOpen>>
auxVars == <<discoverVars, priceVars>>
venueVars == <<v_pc, v_name, v_variant, v_out>>
matchVars == <<mr_pc, mr_venue, mr_time, mr_markets, mr_result>>
batchVars == <<bm_pc, bm_races, bm_markets, bm_i, bm_market, races_matched,
               total_runners_matched, bm_stats, bm_log>>
profileVars == <<pf_pc, pf_i, profiles, pf_log, pf_exc>>
engineVars == <<venueVars, matchVars, batchVars, profileVars>>
vars == <<scrapeVars, getVars, backoffVars, auxVars, engineVars>>

Min(a, b) == IF a <= b THEN a ELSE b
Max(a, b) == IF a >= b THEN a ELSE b

(***************************************************************************)
(* Bounds                                                                  *)
(***************************************************************************)
NumUrls == 3        \* length of the cached URL list
RowsPerRace == 1    \* csv rows of one race
MaxRuns == 2        \* processes started on the same paths
MaxCalls == 2       \* get calls made on one NetworkClient
MaxDeadline == 2    \* largest max_hours passed to get, in units of 100 ticks
MaxReq == 1         \* longest HTTP exchange, in units of 50 ticks
MaxAttempt == 1025  \* largest attempt number given to calculate_backoff
MaxLinks == 2       \* races listed by one index response
MaxRecords == 2     \* csv records of one price file
MaxVenueLen == 3    \* characters of a short venue name
MaxMarkets == 2     \* markets given to match_race_to_market
MaxRaces == 3       \* races given to match_races_to_betfair
MaxProfiles == 3    \* urls given to get_profiles

(***************************************************************************)
(* HTTP statuses and the results a NetworkClient.get call can end with     *)
(***************************************************************************)
Statuses == {200, 403, 404, 406, 429, 500, 502, 503, 504}

RETRYABLE_WITH_403 == {403, 406, 429, 500, 502, 503, 504}

RETRYABLE_STATUS_CODES == {406, 429, 500, 502, 503, 504}

\* get returns (status, response) for a non-retryable status at once and for
\* a retryable one other than 406 at the deadline; it raises NetworkError or
\* Persistent406Error at the deadline.
ClientGetResults ==
    [kind : {"return"}, exc : {"none"}, status : Statuses \ {406}]
    \cup [kind : {"raise"}, exc : {"NetworkError", "Persistent406Error"},
          status : {0}]

(***************************************************************************)
(* scrape_races                                                            *)
(***************************************************************************)
AllUrls == <<"u1", "u2", "u3", "u4", "u5", "u6">>

\* The cached URL list of the run: distinct URLs (a sorted set, reused
\* verbatim from the url cache by every re-run).
race_urls == SubSeq(AllUrls, 1, NumUrls)

Range(s) == {s[i] : i \in 1..Len(s)}

IsPrefix(s, t) == Len(s) <= Len(t) /\ SubSeq(t, 1, Len(s)) = s

\* list.index: the first position of x, 0 standing for ValueError
IndexOf(s, x) ==
    IF x \in Range(s) THEN CHOOSE i \in 1..Len(s) :
                               s[i] = x /\ \A j \in 1..(i - 1) : s[j] # x
    ELSE 0

Header == [url |-> "header", k |-> 0]

\* race.csv_data of the race at url
csv_data(url) == [k \in 1..RowsPerRace |-> [url |-> url, k |-> k]]

\* what constructing Race(...) can do, as scrape_races tells the cases apart
RaceOutcomes == {"ok", "other_type", "VoidRaceError", "RaceFetchError",
                 "NetworkError", "Persistent406Error"}

Running == {"loop", "parse", "write", "ckpt"}

\* paths.progress.read_text().strip() if paths.progress.exists() else None
ReadProgress == IF progress = "absent" THEN "None" ELSE progress

\* race_urls[race_urls.index(last_url) + 1:]
ResumeSliceInclusive(urls, lu) == SubSeq(urls, IndexOf(urls, lu), Len(urls))

ResumeSlice(urls, lu) == SubSeq(urls, IndexOf(urls, lu) + 1, Len(urls))

\* leaving the with block: the writer is closed, its buffer reaches the disk
CloseOutput ==
    /\ outDisk' = outDisk \o outBuf
    /\ outBuf' = <<>>

\* A process enters scrape_races: checkpoint read, resume slice, append
\* decision, output opened, header written when not appending.
\* prepare_betfair (lines 182-185) touches only the Betfair cache and index
\* (priceVars, moved by PriceSpec).
Start ==
    /\ pc \in {"off", "killed", "aborted", "done"}
    /\ runs < MaxRuns
    /\ runs' = runs + 1
    /\ LET lu == ReadProgress
           truthy == lu \notin {"None", ""}
           found == truthy /\ lu \in Range(race_urls)
           app == lu # "None" /\ outExists
       IN /\ last_url' = lu
          /\ resumed' = found
          /\ todo' = IF found THEN ResumeSlice(race_urls, lu) ELSE race_urls
          /\ append' = app
          /\ outExists' = TRUE
          /\ outDisk' = IF app THEN outDisk ELSE <<>>
          /\ outBuf' = IF app THEN <<>> ELSE <<Header>>
    /\ idx' = 1
    /\ row' = 0
    /\ fetched' = <<>>
    /\ scraped_races' = <<>>
    /\ ckptLog' = <<>>
    /\ emitted' = {}
    /\ failure' = "none"
    /\ pc' = "loop"
    /\ UNCHANGED <<getVars, backoffVars, engineVars, auxVars, progress>>

\* client.get(url) returned a status other than 200: log and continue
FetchNon200 ==
    /\ pc = "loop" /\ idx <= Len(todo)
    /\ \E r \in ClientGetResults : r.kind = "return" /\ r.status # 200
    /\ fetched' = Append(fetched, todo[idx])
    /\ failure' = "non200"
    /\ idx' = idx + 1
    /\ UNCHANGED <<getVars, backoffVars, engineVars, auxVars, pc, runs, progress, outExists, outDisk, outBuf, last_url,
                   todo, resumed, append, row, scraped_races, ckptLog, emitted>>

\* client.get(url) returned 200
Fetch200 ==
    /\ pc = "loop" /\ idx <= Len(todo)
    /\ \E r \in ClientGetResults : r.kind = "return" /\ r.status = 200
    /\ fetched' = Append(fetched, todo[idx])
    /\ failure' = "none"
    /\ pc' = "parse"
    /\ UNCHANGED <<getVars, backoffVars, engineVars, auxVars, runs, progress, outExists, outDisk, outBuf, last_url, todo,
                   resumed, append, idx, row, scraped_races, ckptLog, emitted>>

\* client.get(url) raised: line 205 stands outside the try, the exception
\* leaves the with block (which closes the writer) and scrape_races
FetchRaises ==
    /\ pc = "loop" /\ idx <= Len(todo)
    /\ \E r \in ClientGetResults :
          /\ r.kind = "raise"
          /\ failure' = r.exc
    /\ fetched' = Append(fetched, todo[idx])
    /\ CloseOutput
    /\ pc' = "aborted"
    /\ UNCHANGED <<getVars, backoffVars, engineVars, auxVars, runs, progress, outExists, last_url, todo, resumed, append,
                   idx, row, scraped_races, ckptLog, emitted>>

\* the skipped url is checkpointed all the same
ParseSkipCheckpointed ==
    /\ pc = "parse"
    /\ \E o \in RaceOutcomes :
          /\ o \in {"VoidRaceError", "RaceFetchError", "NetworkError",
                    "other_type"}
          /\ failure' = o
    /\ progress' = todo[idx]
    /\ idx' = idx + 1
    /\ pc' = "loop"
    /\ UNCHANGED <<getVars, backoffVars, engineVars, auxVars, runs, outExists, outDisk,
                   outBuf, last_url, todo, resumed, append, row, fetched,
                   scraped_races, ckptLog, emitted>>

\* Race(...) raised one of the three caught exceptions, or the race type is
\* outside RACE_TYPES[race_type]: continue
ParseSkip ==
    /\ pc = "parse"
    /\ \E o \in RaceOutcomes :
          /\ o \in {"VoidRaceError", "RaceFetchError", "NetworkError",
                    "other_type"}
          /\ failure' = o
    /\ idx' = idx + 1
    /\ pc' = "loop"
    /\ UNCHANGED <<getVars, backoffVars, engineVars, auxVars, runs, progress, outExists, outDisk, outBuf, last_url, todo,
                   resumed, append, row, fetched, scraped_races, ckptLog,
                   emitted>>

\* Race(...) raised an exception no except clause names
ParseRaises ==
    /\ pc = "parse"
    /\ \E o \in RaceOutcomes :
          /\ o \notin {"ok", "other_type", "VoidRaceError", "RaceFetchError",
                       "NetworkError"}
          /\ failure' = o
    /\ CloseOutput
    /\ pc' = "aborted"
    /\ UNCHANGED <<getVars, backoffVars, engineVars, auxVars, runs, progress, outExists, last_url, todo, resumed, append,
                   idx, row, fetched, scraped_races, ckptLog, emitted>>

\* Race(...) built a race of an allowed type
ParseOk ==
    /\ pc = "parse"
    /\ "ok" \in RaceOutcomes
    /\ failure' = "none"
    /\ row' = 0
    /\ pc' = "write"
    /\ UNCHANGED <<getVars, backoffVars, engineVars, auxVars, runs, progress, outExists, outDisk, outBuf, last_url, todo,
                   resumed, append, idx, fetched, scraped_races, ckptLog,
                   emitted>>

\* f.write(row + '\n'): the row goes to the writer's buffer
WriteRow ==
    /\ pc = "write" /\ row < RowsPerRace
    /\ outBuf' = Append(outBuf, csv_data(todo[idx])[row + 1])
    /\ row' = row + 1
    /\ emitted' = emitted \cup {todo[idx]}
    /\ UNCHANGED <<getVars, backoffVars, engineVars, auxVars, pc, runs, progress, outExists, outDisk, last_url, todo,
                   resumed, append, idx, fetched, scraped_races, ckptLog,
                   failure>>

\* paths.progress.write_text(url), first half: open(mode='w') truncates
OpenProgress ==
    /\ pc = "write" /\ row = RowsPerRace
    /\ progress' = ""
    /\ pc' = "ckpt"
    /\ UNCHANGED <<getVars, backoffVars, engineVars, auxVars, runs, outExists, outDisk, outBuf, last_url, todo, resumed,
                   append, idx, row, fetched, scraped_races, ckptLog, emitted,
                   failure>>

\* the checkpoint is written but no descriptor is collected
WriteProgressNoDescriptor ==
    /\ pc = "ckpt"
    /\ progress' = todo[idx]
    /\ ckptLog' = Append(ckptLog, todo[idx])
    /\ idx' = idx + 1
    /\ pc' = "loop"
    /\ UNCHANGED <<getVars, backoffVars, engineVars, auxVars, runs, outExists, outDisk,
                   outBuf, last_url, todo, resumed, append, row, fetched,
                   scraped_races, emitted, failure>>

\* paths.progress.write_text(url), second half: the URL is written and the
\* file closed; then the descriptor is appended to scraped_races
WriteProgress ==
    /\ pc = "ckpt"
    /\ progress' = todo[idx]
    /\ ckptLog' = Append(ckptLog, todo[idx])
    /\ scraped_races' = Append(scraped_races, todo[idx])
    /\ idx' = idx + 1
    /\ pc' = "loop"
    /\ UNCHANGED <<getVars, backoffVars, engineVars, auxVars, runs, outExists, outDisk, outBuf, last_url, todo, resumed,
                   append, row, fetched, emitted, failure>>

\* the for loop is exhausted: the with block closes the writer
LoopEnd ==
    /\ pc = "loop" /\ idx > Len(todo)
    /\ CloseOutput
    /\ pc' = "done"
    /\ UNCHANGED <<getVars, backoffVars, engineVars, auxVars, runs, progress, outExists, last_url, todo, resumed, append,
                   idx, row, fetched, scraped_races, ckptLog, emitted, failure>>

\* the writer's buffer fills up and is written out
Flush ==
    /\ pc \in Running
    /\ outBuf # <<>>
    /\ CloseOutput
    /\ UNCHANGED <<getVars, backoffVars, engineVars, auxVars, pc, runs, progress, outExists, last_url, todo, resumed,
                   append, idx, row, fetched, scraped_races, ckptLog, emitted,
                   failure>>

\* the process is terminated: what the writer still buffers is lost
Kill ==
    /\ pc \in Running
    /\ outBuf' = <<>>
    /\ pc' = "killed"
    /\ UNCHANGED <<getVars, backoffVars, engineVars, auxVars, runs, progress, outExists, outDisk, last_url, todo, resumed,
                   append, idx, row, fetched, scraped_races, ckptLog, emitted,
                   failure>>

ScrapeInit ==
    /\ pc = "off"
    /\ runs = 0
    /\ progress = "absent"
    /\ outExists = FALSE
    /\ outDisk = <<>>
    /\ outBuf = <<>>
    /\ last_url = "None"
    /\ todo = <<>>
    /\ resumed = FALSE
    /\ append = FALSE
    /\ idx = 1
    /\ row = 0
    /\ fetched = <<>>
    /\ scraped_races = <<>>
    /\ ckptLog = <<>>
    /\ emitted = {}
    /\ failure = "none"

ScrapeNext ==
    \/ Start
    \/ FetchNon200
    \/ Fetch200
    \/ FetchRaises
    \/ ParseSkip
    \/ ParseRaises
    \/ ParseOk
    \/ WriteRow
    \/ OpenProgress
    \/ WriteProgress
    \/ LoopEnd
    \/ Flush
    \/ Kill


(***************************************************************************)
(* calculate_backoff and the deadline helpers (utils/exceptions.py)        *)
(* Times are integers (ticks); the delays used are multiples of 100, so    *)
(* that a jitter of u percent is a whole number of ticks.                  *)
(***************************************************************************)
\* float(2**attempt) overflows from this exponent on (IEEE double): the
\* int 2**attempt is converted to float to be multiplied by base_delay
FloatMaxExp == 1024

RECURSIVE DoubleUpTo(_, _, _)
\* min(x * 2**n, cap) for x > 0, doubling only while below cap
DoubleUpTo(x, n, cap) ==
    IF n = 0 \/ x >= cap THEN Min(x, cap) ELSE DoubleUpTo(2 * x, n - 1, cap)

\* u is the draw of random.uniform(0, 0.25), in percent
calculate_backoff(att, base, cap, u) ==
    IF att >= FloatMaxExp
    THEN [exc |-> "OverflowError", value |-> 0]
    ELSE LET d == DoubleUpTo(base, att, cap)
             jitter == (d * u) \div 100
         IN [exc |-> "none", value |-> d + jitter]

Jitters == {0, 25}

get_retry_deadline(hours) == now + hours

should_continue_retry_bycount(dl) == attempt < 2

should_continue_retry(dl) == now < dl

\* evaluated at clock value t
time_remaining(dl, t) == Max(dl - t, 0)

(***************************************************************************)
(* NetworkClient (utils/network.py)                                        *)
(***************************************************************************)
BROWSERS == {"edge", "chrome", "firefox", "safari"}

Unbound == [status_code |-> 0, id |-> 0]

NoResult == [kind |-> "none", exc |-> "none", status |-> 0,
             response |-> Unbound, msg |-> <<>>]

\* how long one HTTP exchange takes.  In the "many_retries" scenario the
\* server answers within one tick.
ReqTimes ==
    IF scenario = "many_retries" THEN {0} ELSE {50 * k : k \in 0..MaxReq}

\* (max_hours, base_delay, max_delay) of a call, in ticks.  "scaled": the
\* deadline is a few backoff delays away, as many as fit in a small state
\* space.  "many_retries": the delays are one tick (the jitter, below a
\* tick, is dropped) and the deadline is either two ticks away or far
\* enough for more than FloatMaxExp retries, jitter included.
\* "single_call": as "scaled", for a client that is used once.
CallArgs ==
    IF scenario = "many_retries"
    THEN {[h |-> hh, b |-> 1, m |-> 1] : hh \in {2, 2 * FloatMaxExp}}
    ELSE {[h |-> 100 * k, b |-> 100, m |-> mm] :
             k \in 0..MaxDeadline, mm \in {100, 200}}

CallsAllowed == IF scenario = "scaled" THEN MaxCalls ELSE 1

\* get is entered: lines 108-111
Call ==
    /\ gpc \in {"idle", "returned", "raised"}
    /\ calls < CallsAllowed
    /\ calls' = calls + 1
    /\ \E a \in CallArgs :
          /\ max_hours' = a.h
          /\ base_delay' = a.b
          /\ max_delay' = a.m
          /\ deadline' = get_retry_deadline(a.h)
    /\ last_error' = FALSE
    /\ last_status' = 0
    /\ attempt' = 0
    /\ response' = Unbound
    /\ delay' = 0
    /\ result' = NoResult
    /\ started' = 0
    /\ sleeps' = 0
    /\ lastSeen' = 0
    /\ earlierRetry' = TRUE
    /\ sawFinal' = FALSE
    /\ sawError' = FALSE
    /\ gpc' = "check"
    /\ UNCHANGED <<scrapeVars, backoffVars, engineVars, auxVars, scenario, now, identity, prevStatus,
                   prevIdentity>>

\* the while condition holds: session.get is called (line 115)
BeginAttempt ==
    /\ gpc = "check"
    /\ should_continue_retry(deadline)
    /\ started' = started + 1
    /\ earlierRetry' = (earlierRetry /\ (lastSeen = 0 \/ lastSeen = 1
                                         \/ lastSeen \in {406, 429, 500, 502,
                                                          503, 504}))
    /\ gpc' = "attempting"
    /\ UNCHANGED <<scrapeVars, backoffVars, engineVars, auxVars, scenario, now, calls, identity, max_hours,
                   base_delay, max_delay, deadline, last_error, last_status,
                   attempt, response, delay, result, sleeps, lastSeen,
                   sawFinal, sawError, prevStatus, prevIdentity>>

\* the backoff without line 132 / 149 (delay = min(delay, remaining))
BackoffUncapped(t) ==
    LET remaining == time_remaining(deadline, t)
    IN IF remaining > 0
       THEN \E u \in Jitters :
               LET r == calculate_backoff(attempt, base_delay, max_delay, u)
               IN IF r.exc = "none"
                  THEN /\ delay' = r.value
                       /\ gpc' = "sleep"
                       /\ result' = result
                  ELSE /\ delay' = delay
                       /\ gpc' = "raised"
                       /\ result' = [kind |-> "raise", exc |-> r.exc,
                                     status |-> 0, response |-> Unbound,
                                     msg |-> <<>>]
       ELSE /\ delay' = delay
            /\ gpc' = "check"
            /\ result' = result

\* what lines 128-140 and 145-156 do at clock value t: the pending sleep
\* and the next position
Backoff(t) ==
    LET remaining == time_remaining(deadline, t)
    IN IF remaining > 0
       THEN \E u \in Jitters :
               LET r == calculate_backoff(attempt, base_delay, max_delay, u)
               IN IF r.exc = "none"
                  THEN /\ delay' = Min(r.value, remaining)
                       /\ gpc' = "sleep"
                       /\ result' = result
                  ELSE /\ delay' = delay
                       /\ gpc' = "raised"
                       /\ result' = [kind |-> "raise", exc |-> r.exc,
                                     status |-> 0, response |-> Unbound,
                                     msg |-> <<>>]
       ELSE /\ delay' = delay
            /\ gpc' = "check"
            /\ result' = result

\* the response has a status outside RETRYABLE_STATUS_CODES: lines 122-123
RespondFinal ==
    /\ gpc = "attempting"
    /\ \E s \in Statuses, d \in ReqTimes :
          /\ s \notin RETRYABLE_STATUS_CODES
          /\ now' = now + d
          /\ response' = [status_code |-> s, id |-> started]
          /\ result' = [kind |-> "return", exc |-> "none", status |-> s,
                        response |-> response', msg |-> <<>>]
          /\ lastSeen' = s
          /\ prevStatus' = s
    /\ prevIdentity' = identity
    /\ sawFinal' = TRUE
    /\ gpc' = "returned"
    /\ UNCHANGED <<scrapeVars, backoffVars, engineVars, auxVars, scenario, calls, identity, max_hours,
                   base_delay, max_delay, deadline, last_error, last_status,
                   attempt, delay, started, sleeps, earlierRetry, sawError>>

\* a retryable response that forgets an earlier transport error
RespondRetryableForgetsError ==
    /\ gpc = "attempting"
    /\ \E s \in Statuses, d \in ReqTimes :
          /\ s \in RETRYABLE_STATUS_CODES
          /\ now' = now + d
          /\ response' = [status_code |-> s, id |-> started]
          /\ last_status' = s
          /\ lastSeen' = s
          /\ prevStatus' = s
          /\ Backoff(now + d)
    /\ prevIdentity' = identity
    /\ last_error' = FALSE
    /\ UNCHANGED <<scrapeVars, backoffVars, engineVars, auxVars, scenario, calls, identity, max_hours,
                   base_delay, max_delay, deadline, attempt,
                   started, sleeps, earlierRetry, sawFinal, sawError>>

\* the response has a retryable status: lines 125-140
RespondRetryable ==
    /\ gpc = "attempting"
    /\ \E s \in Statuses, d \in ReqTimes :
          /\ s \in RETRYABLE_STATUS_CODES
          /\ now' = now + d
          /\ response' = [status_code |-> s, id |-> started]
          /\ last_status' = s
          /\ lastSeen' = s
          /\ prevStatus' = s
          /\ Backoff(now + d)
    /\ prevIdentity' = identity
    /\ UNCHANGED <<scrapeVars, backoffVars, engineVars, auxVars, scenario, calls, identity, max_hours,
                   base_delay, max_delay, deadline, last_error, attempt,
                   started, sleeps, earlierRetry, sawFinal, sawError>>

\* session.get raised RequestsError: lines 142-156
TransportError ==
    /\ gpc = "attempting"
    /\ \E d \in ReqTimes :
          /\ now' = now + d
          /\ Backoff(now + d)
    /\ last_error' = TRUE
    /\ lastSeen' = 1
    /\ sawError' = TRUE
    /\ UNCHANGED <<scrapeVars, backoffVars, engineVars, auxVars, scenario, calls, identity, max_hours,
                   base_delay, max_delay, deadline, last_status, attempt,
                   response, started, sleeps, earlierRetry, sawFinal,
                   prevStatus, prevIdentity>>

\* the call gives up after the sleep instead of going round the loop
SleepThenGiveUp ==
    /\ gpc = "sleep"
    /\ now' = now + delay
    /\ attempt' = attempt + 1
    /\ sleeps' = sleeps + 1
    /\ result' = [kind |-> "return", exc |-> "none", status |-> last_status,
                  response |-> response, msg |-> <<>>]
    /\ gpc' = "returned"
    /\ UNCHANGED <<scrapeVars, backoffVars, engineVars, auxVars, scenario, calls, identity,
                   max_hours, base_delay, max_delay, deadline, last_error,
                   last_status, response, delay, started, lastSeen,
                   earlierRetry, sawFinal, sawError, prevStatus, prevIdentity>>

\* sleep(delay); attempt += 1
Sleep ==
    /\ gpc = "sleep"
    /\ now' = now + delay
    /\ attempt' = attempt + 1
    /\ sleeps' = sleeps + 1
    /\ gpc' = "check"
    /\ UNCHANGED <<scrapeVars, backoffVars, engineVars, auxVars, scenario, calls, identity, max_hours,
                   base_delay, max_delay, deadline, last_error, last_status,
                   response, delay, result, started, lastSeen, earlierRetry,
                   sawFinal, sawError, prevStatus, prevIdentity>>

\* the while condition fails: lines 158-180.  The message of NetworkError
\* interpolates elapsed_hours, url and last_error; that of
\* Persistent406Error elapsed_hours and url; the attempt count goes to
\* logger.error only.
Exhausted ==
    /\ gpc = "check"
    /\ ~should_continue_retry(deadline)
    /\ LET elapsed_hours == max_hours - time_remaining(deadline, now)
       IN IF last_error
          THEN /\ result' = [kind |-> "raise", exc |-> "NetworkError",
                             status |-> 0, response |-> Unbound,
                             msg |-> [elapsed_hours |-> elapsed_hours,
                                      url |-> "url", last_error |-> TRUE]]
               /\ gpc' = "raised"
          ELSE IF last_status = 406
          THEN /\ result' = [kind |-> "raise", exc |-> "Persistent406Error",
                             status |-> 0, response |-> Unbound,
                             msg |-> [elapsed_hours |-> elapsed_hours,
                                      url |-> "url"]]
               /\ gpc' = "raised"
          ELSE IF response = Unbound
          THEN /\ result' = [kind |-> "raise", exc |-> "UnboundLocalError",
                             status |-> 0, response |-> Unbound,
                             msg |-> <<>>]
               /\ gpc' = "raised"
          ELSE /\ result' = [kind |-> "return", exc |-> "none",
                             status |-> last_status, response |-> response,
                             msg |-> <<>>]
               /\ gpc' = "returned"
    /\ UNCHANGED <<scrapeVars, backoffVars, engineVars, auxVars, scenario, now, calls, identity, max_hours,
                   base_delay, max_delay, deadline, last_error, last_status,
                   attempt, response, delay, started, sleeps, lastSeen,
                   earlierRetry, sawFinal, sawError, prevStatus, prevIdentity>>

\* NetworkClient.__init__: the session impersonates choice(BROWSERS)
GetInit ==
    /\ scenario \in {"scaled", "single_call", "many_retries"}
    /\ gpc = "idle" /\ now = 0 /\ calls = 0
    /\ identity \in BROWSERS
    /\ max_hours = 0 /\ base_delay = 0 /\ max_delay = 0
    /\ deadline = 0 /\ last_error = FALSE /\ last_status = 0 /\ attempt = 0
    /\ response = Unbound /\ delay = 0 /\ result = NoResult
    /\ started = 0 /\ sleeps = 0 /\ lastSeen = 0 /\ earlierRetry = TRUE
    /\ sawFinal = FALSE /\ sawError = FALSE
    /\ prevStatus = 0 /\ prevIdentity = identity

GetNext ==
    \/ Call
    \/ BeginAttempt
    \/ RespondFinal
    \/ RespondRetryable
    \/ TransportError
    \/ Sleep
    \/ Exhausted


(***************************************************************************)
(* calculate_backoff called on its own                                     *)
(***************************************************************************)
BackoffInit ==
    /\ bpc = "input"
    /\ b_attempt \in 0..MaxAttempt
    /\ b_base \in {100, 200}
    /\ b_max \in {400, 1000}
    /\ b_u \in 0..25
    /\ b_result = [exc |-> "none", value |-> 0]

Compute ==
    /\ bpc = "input"
    /\ b_result' = calculate_backoff(b_attempt, b_base, b_max, b_u)
    /\ bpc' = "done"
    /\ UNCHANGED <<scrapeVars, getVars, auxVars, engineVars, b_attempt, b_base,
                   b_max, b_u>>

BackoffNext == Compute

(***************************************************************************)
(* Strings                                                                 *)
(* A str is a sequence of tokens: a token is a separator ("/", "\n", " ",  *)
(* "'", "-") or a run of other characters.  The operators below work on    *)
(* such sequences the way the str methods work on characters.              *)
(***************************************************************************)
RECURSIVE Split(_, _)
\* s.split(sep): always at least one piece
Split(s, sep) ==
    IF \E i \in 1..Len(s) : s[i] = sep
    THEN LET i == CHOOSE k \in 1..Len(s) :
                     s[k] = sep /\ \A j \in 1..(k - 1) : s[j] # sep
         IN <<SubSeq(s, 1, i - 1)>> \o Split(SubSeq(s, i + 1, Len(s)), sep)
    ELSE <<s>>

RECURSIVE Join(_, _)
\* sep.join(list)
Join(list, sep) ==
    IF list = <<>> THEN <<>>
    ELSE IF Len(list) = 1 THEN list[1]
    ELSE list[1] \o <<sep>> \o Join(Tail(list), sep)

\* s.replace(a, b) for one-token a and b
Replace(s, a, b) == [i \in 1..Len(s) |-> IF s[i] = a THEN b ELSE s[i]]

\* s.replace(a, '')
Remove(s, a) == LET Keep(t) == t # a IN SelectSeq(s, Keep)

Whitespace == {" ", "\n"}

RECURSIVE Strip(_)
\* s.strip()
Strip(s) ==
    IF s = <<>> THEN s
    ELSE IF Head(s) \in Whitespace THEN Strip(Tail(s))
    ELSE IF s[Len(s)] \in Whitespace THEN Strip(SubSeq(s, 1, Len(s) - 1))
    ELSE s

\* s.splitlines(): as split on the line break, without the empty piece that
\* follows a final line break
SplitLines(s) ==
    IF s = <<>> THEN <<>>
    ELSE LET pieces == Split(s, "\n")
         IN IF pieces[Len(pieces)] = <<>>
            THEN SubSeq(pieces, 1, Len(pieces) - 1)
            ELSE pieces

\* the tokens that occur in compared strings, in ascending str order
TokenOrder == <<"-", "2023-06-01", "2024-01-05", "ascot", "le", "lion">>

TokenRank(t) == CHOOSE i \in 1..Len(TokenOrder) : TokenOrder[i] = t

RECURSIVE StrLess(_, _)
\* a < b on str
StrLess(a, b) ==
    IF b = <<>> THEN FALSE
    ELSE IF a = <<>> THEN TRUE
    ELSE IF Head(a) = Head(b) THEN StrLess(Tail(a), Tail(b))
    ELSE TokenRank(Head(a)) < TokenRank(Head(b))

\* a < b on 2-tuples of str
PairLess(a, b) ==
    \/ StrLess(a[1], b[1])
    \/ a[1] = b[1] /\ StrLess(a[2], b[2])

(***************************************************************************)
(* Discovery (get_race_urls, get_race_urls_date) and load_or_save_urls     *)
(***************************************************************************)
\* args.tracks: (course_id, course)
tracks == << <<  <<"1">>, <<"ascot">>  >>, <<  <<"2">>, <<"le", " ", "lion">>  >> >>

\* args.years
years == << <<"2023">>, <<"2024">> >>

\* args.dates
dates == << <<"2023-06-01">>, <<"2024-01-05">> >>

DateIn(year) == IF year = <<"2023">> THEN "2023-06-01" ELSE "2024-01-05"

\* the races the course index may list for a course and a year: two races
\* of the same day
IndexPool(course_id, year) ==
    {[raceDatetime |-> <<DateIn(year), "T", "14:30:00">>,
      raceInstanceUid |-> course_id \o year \o <<n>>] : n \in {"a", "b"}}

\* the course-name links the results page of a date may hold: races of the
\* two tracks asked for and of a third one
ResultLinks(race_date) ==
    {<<"/", "results", "/", "1", "/", "ascot", "/">> \o race_date \o <<"/", "11">>,
     <<"/", "results", "/", "2", "/", "le", "-", "lion", "/">> \o race_date
         \o <<"/", "21">>,
     <<"/", "results", "/", "3", "/", "york", "/">> \o race_date \o <<"/", "31">>}

SeqsUpTo(S, n) == UNION {[1..k -> S] : k \in 0..n}

url_result_base ==
    <<"https:", "/", "/", "www.racingpost.com", "/", "results">>

sort_key_course_only(url) ==
    LET parts == Split(url, "/")
    IN <<parts[6], parts[6]>>

\* sort_key: parts[5] and parts[6] of url.split('/'), counted from 0
sort_key(url) ==
    LET parts == Split(url, "/")
        race_course == parts[6]
        race_date == parts[7]
    IN <<race_date, race_course>>

RECURSIVE Sorted(_)
\* sorted(urls, key=sort_key): the orders a stable sort can give, whatever
\* the iteration order of the set
Sorted(S) ==
    IF S = {} THEN {<<>>}
    ELSE LET least == {m \in S :
                          \A x \in S : ~PairLess(sort_key(x), sort_key(m))}
         IN UNION {{<<m>> \o t : t \in Sorted(S \ {m})} : m \in least}

\* the index queries of a builder, in loop order
Queries ==
    IF d_strategy = "year"
    THEN [k \in 1..(Len(tracks) * Len(years)) |->
             [track |-> tracks[((k - 1) \div Len(years)) + 1],
              year |-> years[((k - 1) % Len(years)) + 1]]]
    ELSE [k \in 1..Len(dates) |-> [race_date |-> dates[k]]]

\* lines 95-98: the url of a race of the course index
RaceUrl(track, race) ==
    LET race_date == <<Head(race.raceDatetime)>>
        race_id == race.raceInstanceUid
        race_url == url_result_base \o <<"/">> \o track[1] \o <<"/">>
                       \o track[2] \o <<"/">> \o race_date \o <<"/">>
                       \o race_id
    IN Remove(Replace(race_url, " ", "-"), "'")

\* lines 122-124: the urls added for the links of a results page
course_ids == {tracks[k][1] : k \in 1..Len(tracks)}

LinkUrls(links) ==
    LET Wanted(href) == Split(href, "/")[3] \in course_ids
        kept == SelectSeq(links, Wanted)
    IN [k \in 1..Len(kept) |->
           <<"https:", "/", "/", "www.racingpost.com">> \o kept[k]]

NotSaved == [ok |-> FALSE, list |-> <<>>]

\* the list read back without its last line
LoadUrlsDropLast(text) ==
    LET lines == SplitLines(text)
        stripped == [k \in 1..Len(lines) |-> Strip(lines[k])]
        NonEmpty(line) == line # <<>>
        kept == SelectSeq(stripped, NonEmpty)
    IN SubSeq(kept, 1, Len(kept) - 1)

\* line 131: the list read back from the cache
LoadUrls(text) ==
    LET lines == SplitLines(text)
        stripped == [k \in 1..Len(lines) |-> Strip(lines[k])]
        NonEmpty(line) == line # <<>>
    IN SelectSeq(stripped, NonEmpty)

DRunning == {"query", "sort", "save_open", "save_write"}

\* a process reaches load_or_save_urls (main, lines 288-298).  With the
\* cache present the list is read back and returned (lines 130-131);
\* otherwise the builder is entered (line 133).
Discover ==
    /\ dpc \in {"off", "killed", "exited", "raised", "ready"}
    /\ d_runs < MaxRuns
    /\ d_runs' = d_runs + 1
    /\ d_hadCache' = d_cacheExists
    /\ d_urls' = {}
    /\ d_adds' = 0
    /\ d_added' = {}
    /\ d_built' = <<>>
    /\ d_i' = 1
    /\ d_end' = "none"
    /\ IF d_cacheExists
       THEN /\ d_result' = LoadUrls(d_cache)
            /\ d_calls' = 0
            /\ dpc' = "ready"
       ELSE /\ d_result' = <<>>
            /\ d_calls' = 1
            /\ dpc' = "query"
    /\ UNCHANGED <<scrapeVars, getVars, backoffVars, engineVars, priceVars, d_strategy,
                   d_cacheExists, d_cache, d_saved>>

AfterQuery == IF d_i = Len(Queries) THEN "sort" ELSE "query"

\* an index query answered 200: the urls of its races are added
QueryOk ==
    /\ dpc = "query"
    /\ LET q == Queries[d_i]
       IN \E new \in
             IF d_strategy = "year"
             THEN {[k \in 1..Len(races) |-> RaceUrl(q.track, races[k])] :
                      races \in SeqsUpTo(IndexPool(q.track[1], q.year),
                                         MaxLinks)}
             ELSE {LinkUrls(links) :
                      links \in SeqsUpTo(ResultLinks(q.race_date), MaxLinks)} :
             /\ d_urls' = d_urls \cup Range(new)
             /\ d_added' = d_added \cup Range(new)
             /\ d_adds' = d_adds + Len(new)
    /\ d_i' = d_i + 1
    /\ dpc' = AfterQuery
    /\ UNCHANGED <<scrapeVars, getVars, backoffVars, engineVars, priceVars, d_runs, d_strategy,
                   d_built, d_calls, d_hadCache, d_cacheExists, d_cache,
                   d_saved, d_result, d_end>>

\* an index query answered another status: get_race_urls exits the process
\* (lines 84-86), get_race_urls_date goes on with the next date (114-116)
QueryNon200 ==
    /\ dpc = "query"
    /\ \E r \in ClientGetResults :
          /\ r.kind = "return"
          /\ r.status # 200
          /\ IF d_strategy = "year"
             THEN /\ dpc' = "exited"
                  \* a retryable status is returned at the retry deadline only
                  /\ d_end' = IF r.status \in RETRYABLE_STATUS_CODES
                              THEN "exhausted" ELSE "non200"
                  /\ d_i' = d_i
             ELSE /\ dpc' = AfterQuery
                  /\ d_end' = d_end
                  /\ d_i' = d_i + 1
    /\ UNCHANGED <<scrapeVars, getVars, backoffVars, engineVars, priceVars, d_runs, d_strategy,
                   d_urls, d_adds, d_added, d_built, d_calls, d_hadCache,
                   d_cacheExists, d_cache, d_saved, d_result>>

\* client.get raised at the retry deadline: nothing catches it
QueryRaises ==
    /\ dpc = "query"
    /\ \E r \in ClientGetResults :
          /\ r.kind = "raise"
          /\ d_end' = r.exc
    /\ dpc' = "raised"
    /\ UNCHANGED <<scrapeVars, getVars, backoffVars, engineVars, priceVars, d_runs, d_strategy, d_i,
                   d_urls, d_adds, d_added, d_built, d_calls, d_hadCache,
                   d_cacheExists, d_cache, d_saved, d_result>>

\* the builder returns sorted(urls, key=sort_key): lines 100 and 126
BuilderReturn ==
    /\ dpc = "sort"
    /\ d_built' \in Sorted(d_urls)
    /\ dpc' = "save_open"
    /\ UNCHANGED <<scrapeVars, getVars, backoffVars, engineVars, priceVars, d_runs, d_strategy, d_i,
                   d_urls, d_adds, d_added, d_calls, d_hadCache,
                   d_cacheExists, d_cache, d_saved, d_result, d_end>>

\* path.write_text, first half: the file is created empty
OpenUrls ==
    /\ dpc = "save_open"
    /\ d_cacheExists' = TRUE
    /\ d_cache' = <<>>
    /\ d_saved' = NotSaved
    /\ dpc' = "save_write"
    /\ UNCHANGED <<scrapeVars, getVars, backoffVars, engineVars, priceVars, d_runs, d_strategy, d_i,
                   d_urls, d_adds, d_added, d_built, d_calls, d_hadCache,
                   d_result, d_end>>

\* path.write_text, second half, and the return of line 136
WriteUrls ==
    /\ dpc = "save_write"
    /\ d_cache' = Join(d_built, "\n")
    /\ d_saved' = [ok |-> TRUE, list |-> d_built]
    /\ d_result' = d_built
    /\ dpc' = "ready"
    /\ UNCHANGED <<scrapeVars, getVars, backoffVars, engineVars, priceVars, d_runs, d_strategy, d_i,
                   d_urls, d_adds, d_added, d_built, d_calls, d_hadCache,
                   d_cacheExists, d_end>>

\* the process is killed during discovery or while saving.  A kill inside
\* write_text leaves the part of the text that had been flushed.
DiscoverKill ==
    /\ dpc \in DRunning
    /\ dpc' = "killed"
    /\ d_end' = "killed"
    /\ IF dpc = "save_write"
       THEN \E n \in 0..Len(Join(d_built, "\n")) :
               d_cache' = SubSeq(Join(d_built, "\n"), 1, n)
       ELSE d_cache' = d_cache
    /\ UNCHANGED <<scrapeVars, getVars, backoffVars, engineVars, priceVars, d_runs, d_strategy, d_i,
                   d_urls, d_adds, d_added, d_built, d_calls, d_hadCache,
                   d_cacheExists, d_saved, d_result>>

DiscoverInit ==
    /\ dpc = "off" /\ d_runs = 0
    /\ d_strategy \in {"year", "date"}
    /\ d_i = 1 /\ d_urls = {} /\ d_adds = 0 /\ d_added = {}
    /\ d_built = <<>> /\ d_calls = 0 /\ d_hadCache = FALSE
    /\ d_cacheExists = FALSE /\ d_cache = <<>> /\ d_saved = NotSaved
    /\ d_result = <<>> /\ d_end = "none"

DiscoverNext ==
    \/ Discover
    \/ QueryOk
    \/ QueryNon200
    \/ QueryRaises
    \/ BuilderReturn
    \/ OpenUrls
    \/ WriteUrls
    \/ DiscoverKill

(***************************************************************************)
(* Price archive fetcher (utils/betfair.py) and prepare_betfair            *)
(***************************************************************************)
BetfairBrowsers ==
    {"chrome110", "chrome116", "chrome119", "chrome120", "edge99", "edge101"}

\* statuses the price archive answers with
ArchiveStatuses == {200, 403, 404, 429, 500, 520}

\* self.urls: the (url, region) pairs of the run, with the day of each file
PriceFiles ==
    << [url |-> "dwbfpricesukwin05012024.csv", region |-> "UK",
        day |-> "2024-01-05"],
       [url |-> "dwbfpricesirewin05012024.csv", region |-> "IRE",
        day |-> "2024-01-05"] >>

\* the csv records a file of the archive may hold: runners of two races,
\* two of them in the same race, and a record that gives no BSP
FileRecords(file) ==
    {[day |-> file.day, off |-> "14:30", horse |-> "h1", ok |-> TRUE],
     [day |-> file.day, off |-> "14:30", horse |-> "h2", ok |-> TRUE],
     [day |-> file.day, off |-> "15:05", horse |-> "h1", ok |-> TRUE],
     [day |-> file.day, off |-> "", horse |-> "", ok |-> FALSE]}

NoBSP == [region |-> "", date |-> "", off |-> "", horse |-> ""]

\* BSP.from_record(record, region): a BSP, or None (NoBSP)
from_record(record, region) ==
    IF record.ok
    THEN [region |-> region, date |-> record.day, off |-> record.off,
          horse |-> record.horse]
    ELSE NoBSP

\* lines 133-139 of get_data
ParseRows(content, region) ==
    LET parsed == [k \in 1..Len(content) |-> from_record(content[k], region)]
        IsBSP(b) == b # NoBSP
    IN SelectSeq(parsed, IsBSP)

KeyOf(bsp) == <<bsp.region, bsp.date, bsp.off>>

\* self.data[key] = [row]
AddRowOverwrite(data, bsp) ==
    IF KeyOf(bsp) \in DOMAIN data
    THEN [data EXCEPT ![KeyOf(bsp)] = <<bsp>>]
    ELSE data @@ (KeyOf(bsp) :> <<bsp>>)

\* self.data.setdefault(key, []).append(row)
AddRow(data, bsp) ==
    IF KeyOf(bsp) \in DOMAIN data
    THEN [data EXCEPT ![KeyOf(bsp)] = Append(@, bsp)]
    ELSE data @@ (KeyOf(bsp) :> <<bsp>>)

RECURSIVE AddRows(_, _)
\* the loop of lines 41-43
AddRows(data, rows) ==
    IF rows = <<>> THEN data
    ELSE AddRows(AddRow(data, Head(rows)), Tail(rows))

EmptyIndex == [key \in {} |-> <<>>]

\* the line prepare_betfair writes for a row (line 164-165) and the BSP
\* that BSP.from_csv makes of a line read back; a cut line gives None
CacheLine(bsp) == <<bsp.date, bsp.region, bsp.off, bsp.horse>>

from_csv(line) ==
    IF Len(line) = 4
    THEN [region |-> line[2], date |-> line[1], off |-> line[3],
          horse |-> line[4]]
    ELSE NoBSP

NoOutcome == [kind |-> "none", rows |-> <<>>, status |-> 0]

\* the delay doubling with every retry
RetrySleepDoubling(s) == IF s = 403 THEN 2 ELSE 10 * (2 ^ f_loop)

\* time.sleep before the retry: lines 113, 117 and 122
RetrySleep(s) == IF s = 403 THEN 2 ELSE 10

\* the statement after the loop without its test
AfterLoopUnchecked(s) == "parse"

\* lines 130-131: what follows the for loop
AfterLoop(s) == IF s # 200 THEN "raise" ELSE "parse"

\* the cache is never looked for
UseCacheNever == FALSE

\* line 152 of prepare_betfair
UseCache == f_cacheExists

\* Betfair.from_csv: the rows of the cache that give a BSP
CachedRows ==
    LET parsed == [k \in 1..Len(f_cache) |-> from_csv(f_cache[k])]
        IsBSP(b) == b # NoBSP
    IN SelectSeq(parsed, IsBSP)

\* a process reaches prepare_betfair with betfair_data set.  With the cache
\* present the index is built by Betfair.from_csv; otherwise Betfair(...)
\* is entered.
Prepare ==
    /\ fpc \in {"off", "ready", "raised", "killed"}
    /\ f_runs < MaxRuns
    /\ f_runs' = f_runs + 1
    /\ f_hadCache' = f_cacheExists
    /\ f_k' = 1
    /\ f_net' = 0
    /\ f_done' = 0
    /\ f_out' = NoOutcome
    /\ IF UseCache
       THEN /\ f_rows' = CachedRows
            /\ f_data' = AddRows(EmptyIndex, CachedRows)
            /\ fpc' = "ready"
       ELSE /\ f_rows' = <<>>
            /\ f_data' = EmptyIndex
            /\ fpc' = "files"
    /\ UNCHANGED <<scrapeVars, getVars, backoffVars, engineVars, discoverVars,
                   f_cacheExists, f_cache, f_browser, f_loop, f_reqs,
                   f_last, f_after, f_blockedAs, f_slept, f_fetchedAtOpen>>

\* get_data is called for the next file: lines 103-104
GetData ==
    /\ fpc = "files"
    /\ f_browser' \in BetfairBrowsers
    /\ f_blockedAs' = "none"
    /\ f_loop' = 0
    /\ f_reqs' = 1
    /\ f_net' = f_net + 1
    /\ f_last' = 0
    /\ f_after' = 0
    /\ f_slept' = 0
    /\ f_out' = NoOutcome
    /\ fpc' = "await"
    /\ UNCHANGED <<scrapeVars, getVars, backoffVars, engineVars, discoverVars, f_runs,
                   f_hadCache, f_cacheExists, f_cache, f_k, f_rows, f_data,
                   f_done, f_fetchedAtOpen>>

\* the locals of get_data are gone when the call ends
CallEnds ==
    /\ f_browser' = "none"
    /\ f_blockedAs' = "none"
    /\ f_loop' = 0
    /\ f_reqs' = 0
    /\ f_last' = 0
    /\ f_after' = 0
    /\ f_slept' = 0

\* get_data returned rows (None: <<>>) after status s to Betfair.__init__:
\* lines 34-43
Returned(kind, rows, s) ==
    /\ f_out' = [kind |-> kind, rows |-> rows, status |-> s]
    /\ CallEnds
    /\ f_rows' = f_rows \o rows
    /\ f_data' = AddRows(f_data, rows)
    /\ f_done' = f_done + 1
    /\ f_k' = f_k + 1
    /\ fpc' = IF f_k = Len(PriceFiles) THEN "open" ELSE "files"

\* get_data raised: nothing in Betfair.__init__, prepare_betfair,
\* scrape_races or main catches it
Raised(exc, s) ==
    /\ f_out' = [kind |-> exc, rows |-> <<>>, status |-> s]
    /\ CallEnds
    /\ fpc' = "raised"
    /\ UNCHANGED <<f_rows, f_data, f_done, f_k>>

\* a retry in which the first pass of the loop is not counted
RetryUncountedFirst(s, browser) ==
    /\ f_last' = s
    /\ f_slept' = RetrySleep(s)
    /\ f_blockedAs' = IF s = 403 THEN f_browser ELSE "none"
    /\ f_after' = IF f_after > 0 \/ s \in {429, 520}
                  THEN f_after + 1 ELSE 0
    /\ f_browser' = browser
    /\ f_reqs' = f_reqs + 1
    /\ f_net' = f_net + 1
    /\ f_loop' = IF f_reqs = 1 THEN 0 ELSE f_loop + 1
    /\ UNCHANGED <<fpc, f_out, f_rows, f_data, f_done, f_k>>

\* the retry of lines 112-125: sleep, then the request again
Retry(s, browser) ==
    /\ f_last' = s
    /\ f_slept' = RetrySleep(s)
    /\ f_blockedAs' = IF s = 403 THEN f_browser ELSE "none"
    /\ f_after' = IF f_after > 0 \/ s \in {429, 520}
                  THEN f_after + 1 ELSE 0
    /\ f_browser' = browser
    /\ f_reqs' = f_reqs + 1
    /\ f_net' = f_net + 1
    /\ f_loop' = f_loop + 1
    /\ UNCHANGED <<fpc, f_out, f_rows, f_data, f_done, f_k>>

\* range(4) of line 106
LoopTries == 4

CallFrame == <<f_runs, f_hadCache, f_cacheExists, f_cache, f_fetchedAtOpen>>

\* 404 inside the loop: lines 107-111
RespondNotFound ==
    /\ fpc = "await" /\ f_loop < LoopTries
    /\ Returned("None", <<>>, 404)
    /\ UNCHANGED <<scrapeVars, getVars, backoffVars, engineVars, discoverVars, CallFrame,
                   f_net>>

\* 429 or 520 inside the loop: lines 112-119
RespondRetry ==
    /\ fpc = "await" /\ f_loop < LoopTries
    /\ \E s \in {429, 520} : Retry(s, f_browser)
    /\ UNCHANGED <<scrapeVars, getVars, backoffVars, engineVars, discoverVars, CallFrame>>

\* 403 inside the loop: lines 120-125
RespondBlocked ==
    /\ fpc = "await" /\ f_loop < LoopTries
    /\ \E browser \in BetfairBrowsers : Retry(403, browser)
    /\ UNCHANGED <<scrapeVars, getVars, backoffVars, engineVars, discoverVars, CallFrame>>

\* the loop is left with the response of status s in resp and line 130
\* lets it through; browser is not used after the loop
ToParse(s) ==
    /\ fpc' = "parse"
    /\ f_last' = s
    /\ f_browser' = "none"
    /\ f_blockedAs' = "none"
    /\ f_slept' = 0
    /\ UNCHANGED <<f_loop, f_reqs, f_after, f_out, f_rows, f_data, f_done,
                   f_k>>

\* 200 inside the loop: break, line 130 passes
RespondOk ==
    /\ fpc = "await" /\ f_loop < LoopTries
    /\ ToParse(200)
    /\ UNCHANGED <<scrapeVars, getVars, backoffVars, engineVars, discoverVars, CallFrame,
                   f_net>>

\* lines 133-145: the rows of resp.content are returned
Parse ==
    /\ fpc = "parse"
    /\ \E content \in SeqsUpTo(FileRecords(PriceFiles[f_k]), MaxRecords) :
          Returned("rows", ParseRows(content, PriceFiles[f_k].region), f_last)
    /\ UNCHANGED <<scrapeVars, getVars, backoffVars, engineVars, discoverVars, CallFrame,
                   f_net>>

\* any other status inside the loop: line 128
RespondOther ==
    /\ fpc = "await" /\ f_loop < LoopTries
    /\ \E s \in ArchiveStatuses \ {200, 403, 404, 429, 520} :
          Raised("RuntimeError", s)
    /\ UNCHANGED <<scrapeVars, getVars, backoffVars, engineVars, discoverVars, CallFrame,
                   f_net>>

\* the response to the last retry: the loop is over, lines 130-131
LoopExhausted ==
    /\ fpc = "await" /\ f_loop = LoopTries
    /\ \E s \in ArchiveStatuses :
          IF AfterLoop(s) = "raise"
          THEN Raised("RuntimeError", s)
          ELSE ToParse(s)
    /\ UNCHANGED <<scrapeVars, getVars, backoffVars, engineVars, discoverVars, CallFrame,
                   f_net>>

\* curl_cffi.requests.get raised
RequestFails ==
    /\ fpc = "await"
    /\ Raised("RequestsError", 0)
    /\ UNCHANGED <<scrapeVars, getVars, backoffVars, engineVars, discoverVars, CallFrame,
                   f_net>>

\* open(paths.betfair, 'w'): line 158
OpenCache ==
    /\ fpc = "open"
    /\ f_cacheExists' = TRUE
    /\ f_cache' = <<>>
    /\ f_fetchedAtOpen' = f_done
    /\ fpc' = "write"
    /\ UNCHANGED <<scrapeVars, getVars, backoffVars, engineVars, discoverVars, f_runs,
                   f_hadCache, f_k, f_browser, f_loop, f_reqs, f_last,
                   f_after, f_blockedAs, f_slept, f_out, f_rows, f_data,
                   f_net, f_done>>

\* the lines of the rows are written and the file is closed: 159-167
WriteCache ==
    /\ fpc = "write"
    /\ f_cache' = [k \in 1..Len(f_rows) |-> CacheLine(f_rows[k])]
    /\ fpc' = "ready"
    /\ UNCHANGED <<scrapeVars, getVars, backoffVars, engineVars, discoverVars, f_runs,
                   f_hadCache, f_cacheExists, f_k, f_browser, f_loop, f_reqs,
                   f_last, f_after, f_blockedAs, f_slept, f_out, f_rows,
                   f_data, f_net, f_done, f_fetchedAtOpen>>

\* the process is killed.  A kill while the cache is written leaves the
\* lines that had been flushed, the last of them possibly cut.
PriceKill ==
    /\ fpc \in {"files", "await", "parse", "open", "write"}
    /\ fpc' = "killed"
    /\ IF fpc = "write"
       THEN \E n \in 0..Len(f_rows), cut \in BOOLEAN :
               f_cache' = [k \in 1..n |->
                              IF k = n /\ cut
                              THEN SubSeq(CacheLine(f_rows[k]), 1, 2)
                              ELSE CacheLine(f_rows[k])]
       ELSE f_cache' = f_cache
    /\ CallEnds
    /\ UNCHANGED <<scrapeVars, getVars, backoffVars, engineVars, discoverVars, f_runs,
                   f_hadCache, f_cacheExists, f_k, f_out, f_rows, f_data,
                   f_net, f_done, f_fetchedAtOpen>>

PriceInit ==
    /\ fpc = "off" /\ f_runs = 0 /\ f_hadCache = FALSE
    /\ f_cacheExists = FALSE /\ f_cache = <<>> /\ f_k = 1
    /\ f_browser = "none" /\ f_loop = 0 /\ f_reqs = 0 /\ f_last = 0
    /\ f_after = 0 /\ f_blockedAs = "none" /\ f_slept = 0
    /\ f_out = NoOutcome
    /\ f_rows = <<>> /\ f_data = EmptyIndex /\ f_net = 0 /\ f_done = 0
    /\ f_fetchedAtOpen = 0

PriceNext ==
    \/ Prepare
    \/ GetData
    \/ RespondNotFound
    \/ RespondRetry
    \/ RespondBlocked
    \/ RespondOk
    \/ Parse
    \/ RespondOther
    \/ LoopExhausted
    \/ RequestFails
    \/ OpenCache
    \/ WriteCache
    \/ PriceKill

(***************************************************************************)
(* Venue names (utils/betfair_matching.py, normalize_venue)                *)
(* A venue name is a sequence of characters.  A character is a record:     *)
(* b is its base (the letter without case and diacritic, or the character  *)
(* itself) and k its kind: "lower" and "upper" are the ASCII letters,      *)
(* "lower_acc" and "upper_acc" the precomposed letters with a diacritic    *)
(* (e acute), "digit" the ASCII digits, "space" the characters matched by  *)
(* \s, "mark" the combining marks (category Mn), "punct" the rest.         *)
(***************************************************************************)
Chr(b, k) == [b |-> b, k |-> k]

Space == Chr(" ", "space")

\* str.lower()
str_lower(s) ==
    [i \in 1..Len(s) |->
        IF s[i].k = "upper" THEN Chr(s[i].b, "lower")
        ELSE IF s[i].k = "upper_acc" THEN Chr(s[i].b, "lower_acc")
        ELSE s[i]]

RECURSIVE nfd(_)
\* unicodedata.normalize("NFD", s): a precomposed letter becomes the letter
\* followed by the combining mark
nfd(s) ==
    IF s = <<>> THEN <<>>
    ELSE LET c == Head(s)
             d == IF c.k = "lower_acc"
                  THEN <<Chr(c.b, "lower"), Chr("acute", "mark")>>
                  ELSE IF c.k = "upper_acc"
                  THEN <<Chr(c.b, "upper"), Chr("acute", "mark")>>
                  ELSE <<c>>
         IN d \o nfd(Tail(s))

\* "".join(c for c in s if unicodedata.category(c) != "Mn")
drop_marks(s) == LET NotMn(c) == c.k # "mark" IN SelectSeq(s, NotMn)

\* re.sub(r"[^a-z0-9\s]", "", s)
drop_non_alnum(s) ==
    LET Kept(c) == c.k \in {"lower", "digit", "space"} IN SelectSeq(s, Kept)

RECURSIVE collapse_spaces(_)
\* re.sub(r"\s+", " ", s)
collapse_spaces(s) ==
    IF s = <<>> THEN <<>>
    ELSE IF Head(s).k = "space"
    THEN IF Len(s) > 1 /\ s[2].k = "space"
         THEN collapse_spaces(Tail(s))
         ELSE <<Space>> \o collapse_spaces(Tail(s))
    ELSE <<Head(s)>> \o collapse_spaces(Tail(s))

RECURSIVE str_strip(_)
\* str.strip()
str_strip(s) ==
    IF s = <<>> THEN s
    ELSE IF Head(s).k = "space" THEN str_strip(Tail(s))
    ELSE IF s[Len(s)].k = "space" THEN str_strip(SubSeq(s, 1, Len(s) - 1))
    ELSE s

\* the diacritics are not split off the letters
normalize_venue_composed(venue) ==
    IF venue = <<>> THEN <<>>
    ELSE str_strip(collapse_spaces(drop_non_alnum(
             drop_marks(str_lower(venue)))))

\* normalize_venue: lines 26-38
normalize_venue(venue) ==
    IF venue = <<>> THEN <<>>
    ELSE str_strip(collapse_spaces(drop_non_alnum(
             drop_marks(nfd(str_lower(venue))))))

\* a str literal of ASCII words: the first letter of each word in upper
\* case when cap, every letter in upper case when up
Word(letters, cap, up) ==
    [i \in 1..Len(letters) |->
        Chr(letters[i], IF up \/ (cap /\ i = 1) THEN "upper" ELSE "lower")]

newmarket == <<"n", "e", "w", "m", "a", "r", "k", "e", "t">>
july == <<"j", "u", "l", "y">>

\* "Newmarket (July)"
NewmarketJuly ==
    Word(newmarket, TRUE, FALSE) \o <<Space, Chr("(", "punct")>>
        \o Word(july, TRUE, FALSE) \o <<Chr(")", "punct")>>

\* "NEWMARKET JULY"
NEWMARKET_JULY ==
    Word(newmarket, FALSE, TRUE) \o <<Space>> \o Word(july, FALSE, TRUE)

\* the characters short names are made of
VenueChars ==
    {Chr("a", "lower"), Chr("a", "lower_acc"), Chr("b", "upper"),
     Chr("(", "punct"), Space}

\* the characters a rewriting may insert
Punctuation == {Chr("-", "punct")}
Blanks == {Space, Chr("tab", "space")}

IsLetter(c) == c.k \in {"lower", "upper", "lower_acc", "upper_acc"}

\* the other case of a letter
SwapCase(c) ==
    Chr(c.b, CASE c.k = "lower" -> "upper"
               [] c.k = "upper" -> "lower"
               [] c.k = "lower_acc" -> "upper_acc"
               [] c.k = "upper_acc" -> "lower_acc")

\* the letter with the diacritic added or taken away
SwapAccent(c) ==
    Chr(c.b, CASE c.k = "lower" -> "lower_acc"
               [] c.k = "upper" -> "upper_acc"
               [] c.k = "lower_acc" -> "lower"
               [] c.k = "upper_acc" -> "upper")

Insert(s, i, c) == SubSeq(s, 1, i - 1) \o <<c>> \o SubSeq(s, i, Len(s))
Delete(s, i) == SubSeq(s, 1, i - 1) \o SubSeq(s, i + 1, Len(s))

\* position i of s (1..Len(s)+1, the place of an insertion) touches a blank
\* or an end of s
AtBlankOrEnd(s, i) ==
    IF i = 1 \/ i = Len(s) + 1 THEN TRUE
    ELSE s[i - 1].k = "space" \/ s[i].k = "space"

\* the blank at position i of s is at an end of s or next to another blank
SpareBlank(s, i) ==
    IF i = 1 \/ i = Len(s) THEN TRUE
    ELSE s[i - 1].k = "space" \/ s[i + 1].k = "space"

VenueInit ==
    /\ v_pc = "input"
    /\ \/ /\ v_name \in SeqsUpTo(VenueChars, MaxVenueLen)
          /\ v_variant = v_name
       \/ /\ v_name = NewmarketJuly
          /\ v_variant = NEWMARKET_JULY
    /\ v_out = <<>>

Rewritable == v_pc = "input" /\ Len(v_variant) <= MaxVenueLen

\* the variant differs in the case of one letter
ChangeCase ==
    /\ Rewritable
    /\ \E i \in 1..Len(v_variant) :
          /\ IsLetter(v_variant[i])
          /\ v_variant' = [v_variant EXCEPT ![i] = SwapCase(@)]
    /\ UNCHANGED <<scrapeVars, getVars, backoffVars, auxVars, matchVars,
                   batchVars, profileVars, v_pc, v_name, v_out>>

\* the variant differs in the diacritic of one letter
ChangeAccent ==
    /\ Rewritable
    /\ \E i \in 1..Len(v_variant) :
          /\ IsLetter(v_variant[i])
          /\ v_variant' = [v_variant EXCEPT ![i] = SwapAccent(@)]
    /\ UNCHANGED <<scrapeVars, getVars, backoffVars, auxVars, matchVars,
                   batchVars, profileVars, v_pc, v_name, v_out>>

\* the variant differs in one punctuation character, added or left out
ChangePunctuation ==
    /\ Rewritable
    /\ \/ /\ Len(v_variant) < MaxVenueLen
          /\ \E i \in 1..(Len(v_variant) + 1), c \in Punctuation :
                v_variant' = Insert(v_variant, i, c)
       \/ \E i \in 1..Len(v_variant) :
             /\ v_variant[i].k = "punct"
             /\ v_variant' = Delete(v_variant, i)
    /\ UNCHANGED <<scrapeVars, getVars, backoffVars, auxVars, matchVars,
                   batchVars, profileVars, v_pc, v_name, v_out>>

\* the variant differs in spacing: one blank more or less where there is a
\* blank or at an end of the name, or another blank character
ChangeSpacing ==
    /\ Rewritable
    /\ \/ /\ Len(v_variant) < MaxVenueLen
          /\ \E i \in 1..(Len(v_variant) + 1), c \in Blanks :
                /\ AtBlankOrEnd(v_variant, i)
                /\ v_variant' = Insert(v_variant, i, c)
       \/ \E i \in 1..Len(v_variant) :
             /\ v_variant[i].k = "space"
             /\ SpareBlank(v_variant, i)
             /\ v_variant' = Delete(v_variant, i)
       \/ \E i \in 1..Len(v_variant), c \in Blanks :
             /\ v_variant[i].k = "space"
             /\ v_variant' = [v_variant EXCEPT ![i] = c]
    /\ UNCHANGED <<scrapeVars, getVars, backoffVars, auxVars, matchVars,
                   batchVars, profileVars, v_pc, v_name, v_out>>

\* normalize_venue is applied to both names
NormalizeBoth ==
    /\ v_pc = "input"
    /\ v_out' = <<normalize_venue(v_name), normalize_venue(v_variant)>>
    /\ v_pc' = "done"
    /\ UNCHANGED <<scrapeVars, getVars, backoffVars, auxVars, matchVars,
                   batchVars, profileVars, v_name, v_variant>>

VenueNext ==
    \/ ChangeCase
    \/ ChangeAccent
    \/ ChangePunctuation
    \/ ChangeSpacing
    \/ NormalizeBoth

(***************************************************************************)
(* Off times and match_race_to_market (utils/betfair_matching.py)          *)
(* A time str is a sequence of tokens: a run of digits (its value n and    *)
(* its number of digits w) or another piece of text.                       *)
(***************************************************************************)
Num(n, w) == [s |-> "digits", n |-> n, w |-> w]
Sym(x) == [s |-> x, n |-> 0, w |-> 0]

IsNum(t) == t.s = "digits"

\* "HH:MM"
Clock(h, m) == <<Num(h, 2), Sym(":"), Num(m, 2)>>

\* "YYYY-MM-DDTHH:MM:00Z"
IsoUtc(month, h, m) ==
    <<Num(2024, 4), Sym("-"), Num(month, 2), Sym("-"), Num(1, 2), Sym("T"),
      Num(h, 2), Sym(":"), Num(m, 2), Sym(":"), Num(0, 2), Sym("Z")>>

\* datetime.fromisoformat accepts the str (after "Z" became "+00:00")
IsIsoFormat(t) ==
    /\ Len(t) = 12
    /\ \A i \in {1, 3, 5, 7, 9, 11} : IsNum(t[i])
    /\ t[2] = Sym("-") /\ t[4] = Sym("-") /\ t[6] = Sym("T")
    /\ t[8] = Sym(":") /\ t[10] = Sym(":") /\ t[12] = Sym("Z")
    /\ t[3].n \in 1..12 /\ t[7].n \in 0..23 /\ t[9].n \in 0..59

\* hours Europe/London is ahead of UTC on the first day of a month
UkOffset(month) == IF month \in 4..10 THEN 1 ELSE 0

\* the first position where (\d{1,2}):(\d{2}) matches, 0 when none does
TimePattern(t) ==
    LET At(i) == /\ IsNum(t[i]) /\ t[i + 1] = Sym(":")
                 /\ IsNum(t[i + 2]) /\ t[i + 2].w >= 2
        hits == {i \in 1..(Len(t) - 2) : At(i)}
    IN IF hits = {} THEN 0
       ELSE CHOOSE i \in hits : \A j \in hits : i <= j

\* normalize_time: lines 41-63
normalize_time(time_str) ==
    IF time_str = <<>> THEN <<>>
    ELSE IF (\E i \in 1..Len(time_str) : time_str[i] = Sym("T"))
            /\ IsIsoFormat(time_str)
    THEN Clock((time_str[7].n + UkOffset(time_str[3].n)) % 24, time_str[9].n)
    ELSE LET i == TimePattern(time_str)
         IN IF i > 0
            THEN LET hours == time_str[i].n % 100
                     minutes == time_str[i + 2].n
                                   \div (10 ^ (time_str[i + 2].w - 2))
                 IN Clock(hours, minutes)
            ELSE time_str

\* hours, mins = map(int, t.split(":")); hours * 60 + mins.  ok is FALSE
\* where Python raises ValueError
TotalMins(t) ==
    LET pieces == Split(t, Sym(":"))
    IN IF /\ Len(pieces) = 2
          /\ \A k \in 1..2 : Len(pieces[k]) = 1 /\ IsNum(pieces[k][1])
       THEN [ok |-> TRUE, mins |-> pieces[1][1].n * 60 + pieces[2][1].n]
       ELSE [ok |-> FALSE, mins |-> 0]

\* a in b, for str
str_in(a, b) ==
    \E k \in 0..(Len(b) - Len(a)) : SubSeq(b, k + 1, k + Len(a)) = a

Abs(x) == IF x < 0 THEN -x ELSE x

\* float("inf") of line 203
Inf == 100000

\* the default of time_tolerance_minutes
DefaultTolerance == 5

\* line 218 with <= for <
BetterOrEqual(time_diff, best_time_diff, time_tolerance_minutes) ==
    time_diff <= time_tolerance_minutes /\ time_diff <= best_time_diff

\* line 218
Better(time_diff, best_time_diff, time_tolerance_minutes) ==
    time_diff <= time_tolerance_minutes /\ time_diff < best_time_diff

RECURSIVE MarketLoop(_, _, _, _, _, _, _)
\* the for loop of lines 205-224 from market i on; best_match is <<>> for
\* None and <<market>> otherwise, tolerance is time_tolerance_minutes
MarketLoop(betfair_markets, i, race_venue_norm, race_total_mins, tolerance, best_match, best_time_diff) ==
    IF i > Len(betfair_markets) THEN best_match
    ELSE LET market == betfair_markets[i]
             market_venue == normalize_venue(market.venue)
             market_time == normalize_time(market.start_time)
             parsed == TotalMins(market_time)
             time_diff == Abs(race_total_mins - parsed.mins)
             skip == \/ market_venue = <<>>
                     \/ /\ ~str_in(race_venue_norm, market_venue)
                        /\ ~str_in(market_venue, race_venue_norm)
             take == /\ ~skip
                     /\ parsed.ok
                     /\ Better(time_diff, best_time_diff, tolerance)
         IN MarketLoop(betfair_markets, i + 1, race_venue_norm,
                       race_total_mins, tolerance,
                       IF take THEN <<market>> ELSE best_match,
                       IF take THEN time_diff ELSE best_time_diff)

\* match_race_to_market: lines 172-226
match_race_to_market(race_venue, race_time, betfair_markets, tolerance) ==
    LET race_venue_norm == normalize_venue(race_venue)
        race_time_norm == normalize_time(race_time)
        parsed == TotalMins(race_time_norm)
    IN IF race_venue_norm = <<>> \/ race_time_norm = <<>> THEN <<>>
       ELSE IF ~parsed.ok THEN <<>>
       ELSE MarketLoop(betfair_markets, 1, race_venue_norm, parsed.mins,
                       tolerance, <<>>, Inf)

ascot == <<"a", "s", "c", "o", "t">>

\* "Ascot"
Ascot == Word(ascot, TRUE, FALSE)

\* "ASCOT (GB)"
AscotGB ==
    Word(ascot, FALSE, TRUE) \o <<Space, Chr("(", "punct")>>
        \o Word(<<"g", "b">>, FALSE, TRUE) \o <<Chr(")", "punct")>>

\* "Ayr"
Ayr == Word(<<"a", "y", "r">>, TRUE, FALSE)

\* the venue of a race: the last one is the empty str
RaceVenues == {Ascot, AscotGB, <<>>}

\* the off time of a race: "14:30", "2:30" and "tbc"
RaceTimes == {Clock(14, 30), <<Num(2, 1), Sym(":"), Num(30, 2)>>,
              <<Sym("tbc")>>}

\* market.get("venue", ""): a market may come without a venue
MarketVenues == {Ascot, AscotGB, Ayr, <<>>}

\* start_time of a market: a clock time, an ISO time in UTC (June: 13:32Z
\* is 14:32 in London) or a text
MarketTimes ==
    {Clock(14, 28), Clock(14, 32), Clock(14, 35), Clock(14, 40),
     IsoUtc(6, 13, 32), <<Sym("tbc")>>}

Markets == [venue : MarketVenues, start_time : MarketTimes]

MatchInit ==
    /\ mr_pc = "input"
    /\ mr_venue \in RaceVenues
    /\ mr_time \in RaceTimes
    /\ mr_markets \in SeqsUpTo(Markets, MaxMarkets)
    /\ mr_result = <<>>

\* match_race_to_market is called with the default tolerance
MatchRace ==
    /\ mr_pc = "input"
    /\ mr_result' = match_race_to_market(mr_venue, mr_time, mr_markets,
                                         DefaultTolerance)
    /\ mr_pc' = "done"
    /\ UNCHANGED <<scrapeVars, getVars, backoffVars, auxVars, venueVars,
                   batchVars, profileVars, mr_venue, mr_time, mr_markets>>

MatchNext == MatchRace

(***************************************************************************)
(* match_races_to_betfair (utils/betfair_matching.py)                      *)
(***************************************************************************)
\* the races passed in: race_id 0 stands for a missing race_id, <<>> for a
\* missing course, venue or off_time
BatchRaces ==
    {[race_id |-> 7, course |-> Ascot, venue |-> <<>>,
      off_time |-> Clock(14, 30)],
     [race_id |-> 7, course |-> <<>>, venue |-> Ascot,
      off_time |-> Clock(14, 30)],
     [race_id |-> 0, course |-> Ascot, venue |-> <<>>,
      off_time |-> Clock(14, 30)],
     [race_id |-> 7, course |-> <<>>, venue |-> <<>>,
      off_time |-> Clock(14, 30)],
     [race_id |-> 7, course |-> Ascot, venue |-> <<>>, off_time |-> <<>>]}

\* what fetch_betfair_markets may return: [] after a failed request or when
\* there is no market, or the markets of the day
FetchedMarkets ==
    {<<>>,
     <<[venue |-> Ayr, start_time |-> Clock(14, 32)]>>,
     <<[venue |-> Ayr, start_time |-> Clock(14, 32)],
       [venue |-> AscotGB, start_time |-> IsoUtc(6, 13, 32)]>>}

\* what auto_match_race may return: {"error": ...} after a failed request,
\* or the json of the response, with or without "matched"
AutoMatchResults ==
    {[error |-> TRUE, has_matched |-> FALSE, matched |-> 0],
     [error |-> FALSE, has_matched |-> FALSE, matched |-> 0],
     [error |-> FALSE, has_matched |-> TRUE, matched |-> 0],
     [error |-> FALSE, has_matched |-> TRUE, matched |-> 2]}

NoStats == [total_races |-> 0, markets_found |-> 0, races_matched |-> 0,
            runners_matched |-> 0]

\* venue = race.get("course") or race.get("venue")
VenueOf(race) == IF race.course # <<>> THEN race.course ELSE race.venue

\* all([race_id, venue, off_time])
AllFields(race) ==
    race.race_id # 0 /\ VenueOf(race) # <<>> /\ race.off_time # <<>>

BatchInit ==
    /\ bm_pc = "fetch"
    /\ bm_races \in SeqsUpTo(BatchRaces, MaxRaces)
    /\ bm_markets = <<>>
    /\ bm_i = 1
    /\ bm_market = <<>>
    /\ races_matched = 0
    /\ total_runners_matched = 0
    /\ bm_stats = NoStats
    /\ bm_log = <<>>

\* lines 248-259: the markets are fetched; without markets the function
\* returns at once
FetchMarkets ==
    /\ bm_pc = "fetch"
    /\ \E got \in FetchedMarkets :
          /\ bm_markets' = got
          /\ IF got = <<>>
             THEN /\ bm_stats' = [total_races |-> Len(bm_races),
                                  markets_found |-> 0,
                                  races_matched |-> 0,
                                  runners_matched |-> 0]
                  /\ bm_pc' = "done"
             ELSE /\ bm_stats' = bm_stats
                  /\ bm_pc' = "loop"
    /\ UNCHANGED <<scrapeVars, getVars, backoffVars, auxVars, venueVars,
                   matchVars, profileVars, bm_races, bm_i, bm_market, races_matched,
                   total_runners_matched, bm_log>>

\* the loop goes on with the next race
Continue(outcome) ==
    /\ bm_log' = Append(bm_log, outcome)
    /\ bm_i' = bm_i + 1
    /\ bm_market' = <<>>
    /\ bm_pc' = "loop"

\* lines 266-280: the next race is looked at and a market looked for
TakeRace ==
    /\ bm_pc = "loop"
    /\ bm_i <= Len(bm_races)
    /\ LET race == bm_races[bm_i]
           market == match_race_to_market(VenueOf(race), race.off_time,
                                          bm_markets, DefaultTolerance)
       IN IF ~AllFields(race) THEN Continue("missing fields")
          ELSE IF market = <<>> THEN Continue("no market")
          ELSE /\ bm_market' = market
               /\ bm_pc' = "runners"
               /\ UNCHANGED <<bm_i, bm_log>>
    /\ UNCHANGED <<scrapeVars, getVars, backoffVars, auxVars, venueVars,
                   matchVars, profileVars, bm_races, bm_markets, races_matched,
                   total_runners_matched, bm_stats>>

\* lines 285-290: fetch_market_runners returns runners, or [] after a
\* failed request
FetchRunners ==
    /\ bm_pc = "runners"
    /\ \E found \in BOOLEAN :
          IF found
          THEN /\ bm_pc' = "automatch"
               /\ UNCHANGED <<bm_i, bm_market, bm_log>>
          ELSE Continue("no runners")
    /\ UNCHANGED <<scrapeVars, getVars, backoffVars, auxVars, venueVars,
                   matchVars, profileVars, bm_races, bm_markets, races_matched,
                   total_runners_matched, bm_stats>>

\* an auto-match that failed is counted like one that succeeded
CountAlways(res) ==
    /\ races_matched' = races_matched + 1
    /\ total_runners_matched' =
          total_runners_matched + (IF res.has_matched THEN res.matched ELSE 0)
    /\ Continue(IF res.error THEN "auto-match failed" ELSE "matched")

\* lines 293-301
Count(res) ==
    IF ~res.error
    THEN /\ races_matched' = races_matched + 1
         /\ total_runners_matched' =
               total_runners_matched
                  + (IF res.has_matched THEN res.matched ELSE 0)
         /\ Continue("matched")
    ELSE /\ UNCHANGED <<races_matched, total_runners_matched>>
         /\ Continue("auto-match failed")

\* line 293: auto_match_race is called and its result counted
AutoMatch ==
    /\ bm_pc = "automatch"
    /\ \E res \in AutoMatchResults : Count(res)
    /\ UNCHANGED <<scrapeVars, getVars, backoffVars, auxVars, venueVars,
                   matchVars, profileVars, bm_races, bm_markets, bm_stats>>

\* lines 303-308: the statistics are returned
ReturnStats ==
    /\ bm_pc = "loop"
    /\ bm_i > Len(bm_races)
    /\ bm_stats' = [total_races |-> Len(bm_races),
                    markets_found |-> Len(bm_markets),
                    races_matched |-> races_matched,
                    runners_matched |-> total_runners_matched]
    /\ bm_pc' = "done"
    /\ UNCHANGED <<scrapeVars, getVars, backoffVars, auxVars, venueVars,
                   matchVars, profileVars, bm_races, bm_markets, bm_i, bm_market,
                   races_matched, total_runners_matched, bm_log>>

BatchNext ==
    \/ FetchMarkets
    \/ TakeRace
    \/ FetchRunners
    \/ AutoMatch
    \/ ReturnStats

(***************************************************************************)
(* get_profiles (utils/profiles.py)                                        *)
(* The text of a script element is a sequence of tokens Sym(x); the token  *)
(* [s |-> "json", n |-> k] is a json text that orjson.loads turns into     *)
(* Payloads[k].                                                            *)
(***************************************************************************)
Marker == Sym("window.PRELOADED_STATE =")

JsonText(k) == [s |-> "json", n |-> k, w |-> 0]

\* the dicts a profile page may carry: keys are the top-level keys, uid the
\* value of profile["horseUid"], 0 when profile has no such key
Payloads ==
    <<[keys |-> {"profile", "quotes", "stableTourQuotes"}, uid |-> 1],
      [keys |-> {"profile", "quotes", "stableTourQuotes"}, uid |-> 2],
      [keys |-> {"quotes", "stableTourQuotes"}, uid |-> 0],
      [keys |-> {"profile", "stableTourQuotes"}, uid |-> 1],
      [keys |-> {"profile", "quotes"}, uid |-> 1],
      [keys |-> {"profile", "quotes", "stableTourQuotes"}, uid |-> 0]>>

\* the text of the first script element of body: with the marker and a
\* json text, with the marker and something else, without the marker
ScriptTexts ==
    {<<Sym("var"), Marker, Sym(" "), JsonText(k), Sym(";"), Sym("\n"),
       Sym("more")>> : k \in 1..Len(Payloads)}
       \cup {<<Sym("var"), Marker, Sym(" "), Sym("{oops"), Sym(";"),
               Sym("\n"), Sym("more")>>,
             <<Sym("var"), Sym("x = 1"), Sym(";")>>}

\* what client.get may give for a profile url: a response (script is
\* "absent" when body has no script element, "empty" when the element has
\* no text) or an exception
ProfileResponses ==
    {[exc |-> "none", status |-> 404, script |-> "absent", text |-> <<>>],
     [exc |-> "none", status |-> 200, script |-> "absent", text |-> <<>>],
     [exc |-> "none", status |-> 200, script |-> "empty", text |-> <<>>]}
       \cup {[exc |-> "none", status |-> 200, script |-> "text", text |-> t] :
                t \in ScriptTexts}
       \cup {[exc |-> "NetworkError", status |-> 0, script |-> "absent",
              text |-> <<>>]}

RECURSIVE StripTokens(_, _)
\* s.strip() and s.strip(chars)
StripTokens(s, chars) ==
    IF s = <<>> THEN s
    ELSE IF Head(s) \in chars THEN StripTokens(Tail(s), chars)
    ELSE IF s[Len(s)] \in chars
    THEN StripTokens(SubSeq(s, 1, Len(s) - 1), chars)
    ELSE s

\* _extract_json_string: ok is FALSE where [1] raises IndexError
extract_json_string(script_text) ==
    LET pieces == Split(script_text, Marker)
    IN IF Len(pieces) < 2 THEN [ok |-> FALSE, str |-> <<>>]
       ELSE [ok |-> TRUE,
             str |-> StripTokens(
                        StripTokens(Split(pieces[2], Sym("\n"))[1],
                                    {Sym(" "), Sym("\n")}),
                        {Sym(";")})]

\* _parse_profile_response: the dict, or the ProfileParseError raised
parse_profile_response(resp) ==
    IF resp.script = "absent"
    THEN [exc |-> "ProfileParseError", payload |-> 0]
    ELSE IF resp.script = "empty"
    THEN [exc |-> "ProfileParseError", payload |-> 0]
    ELSE LET json_str == extract_json_string(resp.text)
         IN IF ~json_str.ok
            THEN [exc |-> "ProfileParseError", payload |-> 0]
            ELSE IF Len(json_str.str) = 1 /\ json_str.str[1].s = "json"
            THEN [exc |-> "none", payload |-> json_str.str[1].n]
            ELSE [exc |-> "ProfileParseError", payload |-> 0]

\* _extract_profile_from_url: lines 50-74
extract_profile_from_url(resp) ==
    IF resp.exc # "none" THEN [exc |-> resp.exc, payload |-> 0]
    ELSE IF resp.status # 200
    THEN [exc |-> "ProfileFetchError", payload |-> 0]
    ELSE parse_profile_response(resp)

\* urls
ProfileIds == <<"101", "102", "103", "104">>

ProfileUrls ==
    [k \in 1..MaxProfiles |->
        <<"https:", "/", "/", "www.racingpost.com", "/", "profile", "/",
          "horse", "/", ProfileIds[k], "/", "name">>]

\* f'{split[5]}/{split[6]}'
Provenance(url) ==
    LET split == Split(url, "/") IN split[6] \o <<"/">> \o split[7]

\* lines 37-40: the entry stored for a payload, or the KeyError raised
StoreEntry(url, payload) ==
    IF "profile" \notin payload.keys THEN [exc |-> "KeyError"]
    ELSE IF "quotes" \notin payload.keys THEN [exc |-> "KeyError"]
    ELSE IF "stableTourQuotes" \notin payload.keys THEN [exc |-> "KeyError"]
    ELSE IF payload.uid = 0 THEN [exc |-> "KeyError"]
    ELSE [exc |-> "none", horseUid |-> payload.uid,
          profile |-> Provenance(url)]

ProfilesInit ==
    /\ pf_pc = "loop"
    /\ pf_i = 1
    /\ profiles = [u \in {} |-> <<>>]
    /\ pf_log = <<>>
    /\ pf_exc = "none"

\* one pass of the for loop: lines 34-45
FetchProfile ==
    /\ pf_pc = "loop"
    /\ pf_i <= Len(ProfileUrls)
    /\ \E resp \in ProfileResponses :
          LET url == ProfileUrls[pf_i]
              got == extract_profile_from_url(resp)
              entry == IF got.exc = "none"
                       THEN StoreEntry(url, Payloads[got.payload])
                       ELSE [exc |-> got.exc]
          IN /\ pf_log' = Append(pf_log, [resp |-> resp, exc |-> entry.exc])
             /\ IF entry.exc = "none"
                THEN /\ profiles' =
                           [u \in DOMAIN profiles \cup {entry.horseUid} |->
                               IF u = entry.horseUid THEN entry.profile
                               ELSE profiles[u]]
                     /\ pf_i' = pf_i + 1
                     /\ UNCHANGED <<pf_pc, pf_exc>>
                ELSE IF entry.exc \in {"ProfileFetchError",
                                       "ProfileParseError", "NetworkError"}
                THEN /\ pf_i' = pf_i + 1
                     /\ UNCHANGED <<pf_pc, pf_exc, profiles>>
                ELSE /\ pf_pc' = "raised"
                     /\ pf_exc' = entry.exc
                     /\ UNCHANGED <<pf_i, profiles>>
    /\ UNCHANGED <<scrapeVars, getVars, backoffVars, auxVars, venueVars,
                   matchVars, batchVars>>

\* line 47
ReturnProfiles ==
    /\ pf_pc = "loop"
    /\ pf_i > Len(ProfileUrls)
    /\ pf_pc' = "returned"
    /\ UNCHANGED <<scrapeVars, getVars, backoffVars, auxVars, venueVars,
                   matchVars, batchVars, pf_i, profiles, pf_log, pf_exc>>

ProfilesNext ==
    \/ FetchProfile
    \/ ReturnProfiles

(***************************************************************************)
(* Specifications                                                          *)
(***************************************************************************)
GetIdle ==
    /\ scenario = "scaled" /\ gpc = "idle" /\ now = 0 /\ calls = 0 /\ identity = "chrome"
    /\ max_hours = 0 /\ base_delay = 0 /\ max_delay = 0
    /\ deadline = 0 /\ last_error = FALSE /\ last_status = 0 /\ attempt = 0
    /\ response = Unbound /\ delay = 0 /\ result = NoResult
    /\ started = 0 /\ sleeps = 0 /\ lastSeen = 0 /\ earlierRetry = TRUE
    /\ sawFinal = FALSE /\ sawError = FALSE
    /\ prevStatus = 0 /\ prevIdentity = "chrome"

BackoffIdle ==
    /\ bpc = "idle" /\ b_attempt = 0 /\ b_base = 0 /\ b_max = 0 /\ b_u = 0
    /\ b_result = [exc |-> "none", value |-> 0]

DiscoverIdle ==
    /\ dpc = "off" /\ d_runs = 0 /\ d_strategy = "year"
    /\ d_i = 1 /\ d_urls = {} /\ d_adds = 0 /\ d_added = {}
    /\ d_built = <<>> /\ d_calls = 0 /\ d_hadCache = FALSE
    /\ d_cacheExists = FALSE /\ d_cache = <<>> /\ d_saved = NotSaved
    /\ d_result = <<>> /\ d_end = "none"

VenueIdle == v_pc = "off" /\ v_name = <<>> /\ v_variant = <<>> /\ v_out = <<>>

MatchIdle ==
    /\ mr_pc = "off" /\ mr_venue = <<>> /\ mr_time = <<>>
    /\ mr_markets = <<>> /\ mr_result = <<>>

BatchIdle ==
    /\ bm_pc = "off" /\ bm_races = <<>> /\ bm_markets = <<>> /\ bm_i = 1
    /\ bm_market = <<>> /\ races_matched = 0 /\ total_runners_matched = 0
    /\ bm_stats = NoStats /\ bm_log = <<>>

ProfilesIdle ==
    /\ pf_pc = "off" /\ pf_i = 1 /\ profiles = <<>> /\ pf_log = <<>>
    /\ pf_exc = "none"

EngineIdle == VenueIdle /\ MatchIdle /\ BatchIdle /\ ProfilesIdle

AuxIdle == DiscoverIdle /\ PriceInit /\ EngineIdle

ScrapeStart == ScrapeInit /\ GetIdle /\ BackoffIdle /\ AuxIdle

ScrapeSpec == ScrapeStart /\ [][ScrapeNext]_vars

ScrapeIdle ==
    /\ pc = "off" /\ runs = 0 /\ progress = "absent" /\ outExists = FALSE
    /\ outDisk = <<>> /\ outBuf = <<>> /\ last_url = "None" /\ todo = <<>>
    /\ resumed = FALSE /\ append = FALSE /\ idx = 1 /\ row = 0
    /\ fetched = <<>> /\ scraped_races = <<>> /\ ckptLog = <<>>
    /\ emitted = {} /\ failure = "none"

GetStart ==
    ScrapeIdle /\ GetInit /\ BackoffIdle /\ AuxIdle /\ scenario = "scaled"

GetSpec == GetStart /\ [][GetNext]_vars

\* the clock advances (sleep returns) and every HTTP attempt completes
\* (session.get is called with timeout=self.timeout)
GetFairStart ==
    ScrapeIdle /\ GetInit /\ BackoffIdle /\ AuxIdle
    /\ scenario = "single_call"

GetFairSpec ==
    /\ GetFairStart
    /\ [][GetNext]_vars
    /\ WF_vars(BeginAttempt)
    /\ WF_vars(RespondFinal \/ RespondRetryable \/ TransportError)
    /\ WF_vars(Sleep)
    /\ WF_vars(Exhausted)

GetLongStart ==
    ScrapeIdle /\ GetInit /\ BackoffIdle /\ AuxIdle
    /\ scenario = "many_retries"

\* a server that answers every request with a retryable status
GetLongNext ==
    \/ Call
    \/ BeginAttempt
    \/ RespondRetryable
    \/ Sleep
    \/ Exhausted

GetLongSpec == GetLongStart /\ [][GetLongNext]_vars

BackoffStart == ScrapeIdle /\ GetIdle /\ BackoffInit /\ AuxIdle

BackoffSpec == BackoffStart /\ [][BackoffNext]_vars

DiscoverStart ==
    ScrapeIdle /\ GetIdle /\ BackoffIdle /\ DiscoverInit /\ PriceInit
    /\ EngineIdle

DiscoverSpec == DiscoverStart /\ [][DiscoverNext]_vars

PriceStart ==
    ScrapeIdle /\ GetIdle /\ BackoffIdle /\ DiscoverIdle /\ PriceInit
    /\ EngineIdle

VenueStart ==
    ScrapeIdle /\ GetIdle /\ BackoffIdle /\ DiscoverIdle /\ PriceInit
    /\ VenueInit /\ MatchIdle /\ BatchIdle /\ ProfilesIdle

MatchStart ==
    ScrapeIdle /\ GetIdle /\ BackoffIdle /\ DiscoverIdle /\ PriceInit
    /\ VenueIdle /\ MatchInit /\ BatchIdle /\ ProfilesIdle

MatchSpec == MatchStart /\ [][MatchNext]_vars

BatchStart ==
    ScrapeIdle /\ GetIdle /\ BackoffIdle /\ DiscoverIdle /\ PriceInit
    /\ VenueIdle /\ MatchIdle /\ BatchInit /\ ProfilesIdle

BatchSpec == BatchStart /\ [][BatchNext]_vars

ProfilesStart ==
    ScrapeIdle /\ GetIdle /\ BackoffIdle /\ DiscoverIdle /\ PriceInit
    /\ VenueIdle /\ MatchIdle /\ BatchIdle /\ ProfilesInit

ProfilesSpec == ProfilesStart /\ [][ProfilesNext]_vars

VenueSpec == VenueStart /\ [][VenueNext]_vars

PriceSpec == PriceStart /\ [][PriceNext]_vars

\* every request made by get_data is answered (or fails), and the parsing
\* of a 200 response ends
\* the last process that is followed: the earlier ones were killed before
\* Betfair(...) made a request, so there is no cache
PriceFairStart ==
    /\ ScrapeIdle /\ GetIdle /\ BackoffIdle /\ DiscoverIdle /\ EngineIdle
    /\ fpc = "killed" /\ f_runs = MaxRuns - 1 /\ f_hadCache = FALSE
    /\ f_cacheExists = FALSE /\ f_cache = <<>> /\ f_k = 1
    /\ f_browser = "none" /\ f_loop = 0 /\ f_reqs = 0 /\ f_last = 0
    /\ f_after = 0 /\ f_blockedAs = "none" /\ f_slept = 0
    /\ f_out = NoOutcome
    /\ f_rows = <<>> /\ f_data = EmptyIndex /\ f_net = 0 /\ f_done = 0
    /\ f_fetchedAtOpen = 0

PriceFairSpec ==
    /\ PriceFairStart
    /\ [][PriceNext]_vars
    /\ WF_vars(RespondNotFound \/ RespondRetry \/ RespondBlocked \/ RespondOk
                 \/ RespondOther \/ LoopExhausted \/ RequestFails)
    /\ WF_vars(Parse)

(***************************************************************************)
(* Claims about scrape_races (checked under ScrapeSpec)                    *)
(***************************************************************************)
RowsOnDisk(url) == \A k \in 1..RowsPerRace : csv_data(url)[k] \in Range(outDisk)

Copies(r) == Cardinality({i \in 1..Len(outDisk) : outDisk[i] = r})

\* C1: whenever the checkpoint file holds URL u, all rows of u's race are
\* already in the output file on disk; so a kill at any point followed by a
\* re-run never drops the rows of a race that was scraped, and duplicates
\* the rows of at most one race.
C1_CheckpointedRowsOnDisk ==
    /\ progress \in Range(race_urls) => RowsOnDisk(progress)
    /\ (pc = "done" /\ last_url \in Range(race_urls)) => RowsOnDisk(last_url)
    /\ (pc = "done" /\ runs = 2) =>
          Cardinality({u \in Range(race_urls) :
                          \E k \in 1..RowsPerRace : Copies(csv_data(u)[k]) > 1})
              <= 1

\* C2: a run that resumes from a checkpoint present in the URL list fetches
\* the URLs strictly after the checkpoint, in list order and without gaps
\* (all of them once the loop has completed), and hands rows to the writer
\* for none of the URLs at or before the checkpoint.
C2_ResumeProcessesSuffix ==
    (pc \in Running \cup {"done", "aborted", "killed"}
        /\ last_url \in Range(race_urls))
    => LET i == IndexOf(race_urls, last_url)
           after == SubSeq(race_urls, i + 1, Len(race_urls))
       IN /\ IsPrefix(fetched, after)
          /\ pc = "done" => fetched = after
          /\ emitted \subseteq Range(after)
          /\ Range(ckptLog) \subseteq Range(after)

C2_Witness ==
    /\ pc = "done"
    /\ last_url = race_urls[1]
    /\ fetched = SubSeq(race_urls, 2, Len(race_urls))
    /\ Len(fetched) >= 2
    /\ ckptLog = fetched

\* C3: the output is opened in append mode (no header written) exactly when
\* the loop resumes after a checkpoint position; in every other case it is
\* written fresh and starts with the header line.
C3_AppendIffResumed ==
    pc \in Running =>
        /\ append <=> resumed
        /\ ~append => Head(outDisk \o outBuf) = Header

\* C4: no per-item failure aborts the loop: a URL whose fetch yields a
\* non-200 status, a void race, a fetch error or a network error is skipped
\* and the later URLs are still processed.
C4_NoItemFailureAborts ==
    pc = "aborted" =>
        failure \notin {"non200", "VoidRaceError", "RaceFetchError",
                        "NetworkError"}

\* C25: the checkpoint is rewritten once per written race and never
\* batched: after each loop iteration the checkpoint file holds the URL of
\* the most recent race whose rows were written in this run (what the run
\* found there, if it has written none), and an iteration that skips its
\* URL leaves the checkpoint and the output file unchanged.
C25_CheckpointPerRace ==
    /\ [](pc = "loop" =>
             /\ Range(ckptLog) = emitted
             /\ Len(ckptLog) = Cardinality(emitted)
             /\ progress = IF ckptLog # <<>> THEN ckptLog[Len(ckptLog)]
                           ELSE IF last_url = "None" THEN "absent"
                           ELSE last_url)
    /\ [][(pc \in {"loop", "parse"} /\ pc' \in {"loop", "parse", "aborted"})
             => /\ progress' = progress
                /\ outDisk' \o outBuf' = outDisk \o outBuf]_vars

\* a race was written and checkpointed, and the next URL was skipped for
\* its race type
C25_Witness ==
    /\ pc = "loop"
    /\ failure = "other_type"
    /\ ckptLog # <<>>
    /\ idx = Len(ckptLog) + 2
    /\ progress = todo[idx - 2]

\* C26: scrape_races returns one descriptor for every race whose rows were
\* written in this run and for no other URL: the returned list has the
\* same length and order as the checkpoint updates made by the call.
C26_DescriptorPerWrittenRace ==
    pc = "done" =>
        /\ scraped_races = ckptLog
        /\ Range(scraped_races) = emitted
        /\ Len(scraped_races) = Cardinality(emitted)

\* a call that wrote two races and skipped one returned two descriptors
C26_Witness ==
    /\ pc = "done"
    /\ Len(scraped_races) = 2
    /\ Len(fetched) = 3

(***************************************************************************)
(* Claims about NetworkClient.get (checked under GetSpec; C7 under         *)
(* GetLongSpec)                                                            *)
(***************************************************************************)
InCall == gpc \in {"check", "attempting", "sleep", "returned", "raised"}

Terminal == gpc \in {"returned", "raised"}

\* C5: get retries only on statuses in {406, 429, 500, 502, 503, 504}: the
\* first response whose status is outside that set is returned at once as
\* (status, response), with no sleep and no further attempt.
C5_RetryOnlyRetryable ==
    InCall =>
        \* every attempt but the latest ended in a retryable status or in a
        \* transport error
        /\ earlierRetry
        /\ (lastSeen \in Statuses \ {406, 429, 500, 502, 503, 504}) =>
              /\ gpc = "returned"
              /\ result.kind = "return"
              /\ result.status = lastSeen
              /\ result.response = response
              /\ response = [status_code |-> lastSeen, id |-> started]
              /\ sleeps < started

C5_Witness ==
    /\ gpc = "returned"
    /\ result.status = 403
    /\ started = 2
    /\ sleeps = 1
    /\ last_status = 503

\* C6: once the deadline has passed no further HTTP attempt is started,
\* however few attempts have been made.
C6_NoAttemptAfterDeadline ==
    gpc = "attempting" => now < deadline

C6_Witness ==
    /\ gpc = "check"
    /\ now >= deadline
    /\ started = 1
    /\ lastSeen = 500
    /\ max_hours > 0

\* C7: a call in which every response is a retryable status returns or
\* raises only once the deadline has elapsed.
C7_EndsOnlyAtDeadline ==
    (Terminal /\ ~sawFinal) => now >= deadline

\* C8: at the deadline, a call that met no transport exception and saw only
\* retryable statuses returns the last (status, response), or raises
\* Persistent406Error if that status is 406; a call whose retries were
\* transport errors raises NetworkError carrying the elapsed time and the
\* attempt count.
C8_ExhaustionOutcome ==
    (Terminal /\ ~sawFinal) =>
        /\ (~sawError /\ response # Unbound /\ last_status # 406) =>
              /\ result.kind = "return"
              /\ result.status = last_status
              /\ result.response = response
        /\ (~sawError /\ response # Unbound /\ last_status = 406) =>
              /\ result.kind = "raise"
              /\ result.exc = "Persistent406Error"
        /\ sawError =>
              /\ result.kind = "raise"
              /\ result.exc = "NetworkError"
              /\ "elapsed_hours" \in DOMAIN result.msg
              /\ "attempts" \in DOMAIN result.msg

\* C9: a client keeps one browser identity for its whole lifetime unless a
\* 403 is observed; when a 403 is observed the identity is rotated before
\* the next attempt.
C9_RotateOn403 ==
    /\ (prevStatus # 403) => identity = prevIdentity
    /\ (gpc = "attempting" /\ prevStatus = 403) => identity # prevIdentity

\* C11: every sleep of get, after a retryable status or after a transport
\* error, is no longer than the time remaining until the deadline at the
\* moment the sleep is computed, so the sleep never ends after the deadline.
\* (The clock does not advance between the computation of the delay and the
\* call of sleep, and sleep(delay) lasts delay.)
C11_SleepWithinDeadline ==
    [][gpc = "sleep" =>
          /\ delay <= time_remaining(deadline, now)
          /\ now' <= deadline]_vars

\* a sleep cut short by the deadline, after a status and after an error
C11_Witness ==
    /\ gpc = "sleep"
    /\ delay < base_delay
    /\ delay = deadline - now
    /\ lastSeen = 1
    /\ sleeps = 1

(***************************************************************************)
(* Claims about discovery and the url cache (checked under DiscoverSpec)   *)
(***************************************************************************)
BuilderReturned == dpc \in {"save_open", "save_write"} \/ (dpc = "ready" /\ ~d_hadCache)

\* the (date, course) pair at positions 6 and 5 of the url split on "/"
DateCourse(url) == <<Split(url, "/")[7], Split(url, "/")[6]>>

\* C12: for both discovery strategies the returned list contains every
\* discovered URL exactly once and is sorted ascending by the (date, course)
\* pair taken from positions 6 and 5 of the URL path.
C12_DiscoveryDedupSorted ==
    BuilderReturned =>
        /\ Range(d_built) = d_added
        /\ \A i, j \in 1..Len(d_built) : i # j => d_built[i] # d_built[j]
        /\ \A i, j \in 1..Len(d_built) :
              i < j => ~PairLess(DateCourse(d_built[j]), DateCourse(d_built[i]))

\* a duplicate was dropped and races of both days and both courses are in
\* the list
C12_Witness ==
    /\ dpc = "save_open"
    /\ d_adds > Len(d_built)
    /\ Len(d_built) >= 4
    /\ DateCourse(d_built[1])[1] # DateCourse(d_built[Len(d_built)])[1]
    /\ \E i \in 1..Len(d_built) :
          DateCourse(d_built[i])[2] # DateCourse(d_built[1])[2]

\* C13: load_or_save_urls: when the url cache exists the builder is never
\* invoked and the returned list is exactly the list that was saved (same
\* urls, same order); when it does not exist the builder runs once and its
\* result is in the cache before any race is scraped.
C13_CacheReusedVerbatim ==
    /\ d_hadCache => d_calls = 0
    /\ (dpc = "ready" /\ d_hadCache /\ d_saved.ok) => d_result = d_saved.list
    /\ (dpc = "ready" /\ ~d_hadCache) =>
          /\ d_calls = 1
          /\ d_cacheExists
          /\ LoadUrls(d_cache) = d_built
          /\ d_result = d_built

C13_Witness ==
    /\ dpc = "ready"
    /\ d_runs = 2
    /\ d_hadCache
    /\ d_saved.ok
    /\ Len(d_result) >= 3

\* C14: a single failing item never aborts collection of the rest; only
\* retry-deadline exhaustion and configuration failures end the run.  Here
\* the item is one index query of discovery.
C14_ItemFailureContinues ==
    dpc = "exited" => d_end # "non200"

(***************************************************************************)
(* Claims about the price archive fetcher (checked under PriceSpec)        *)
(***************************************************************************)
\* C15: a 404 means not published and is never an error: whenever the
\* response that ends a get_data call is 404, as first response or as the
\* response to a retry, get_data returns no rows, raises nothing, and the
\* index gets no entry for that file.
C15_NotFoundIsNoError ==
    f_out.status = 404 =>
        /\ f_out.kind = "None"
        /\ fpc # "raised"
        /\ \A key \in DOMAIN f_data : key[1] # PriceFiles[f_k - 1].region

\* C16 as stated: a 429 or 520 is followed by a fixed 10-second sleep and a
\* single retry: after one 429/520 the url is requested at most one more
\* time.
C16_SingleRetry ==
    /\ f_last \in {429, 520} => f_slept = 10
    /\ f_after <= 1

\* C16 amended: every 429 or 520 received inside the loop is followed by a
\* sleep of exactly 10 seconds, whatever the number of earlier retries, and
\* by one further request; a call makes at most 4 retries (5 requests), so
\* after one 429/520 the url is requested at most 4 more times.
C16_FixedSleepBoundedRetries ==
    /\ f_last \in {429, 520} => f_slept = 10
    /\ f_after <= 4
    /\ f_reqs <= 5
    /\ fpc = "await" => f_reqs = f_loop + 1

C16_Witness ==
    /\ fpc = "await"
    /\ f_last = 520
    /\ f_after = 4
    /\ f_slept = 10
    /\ f_reqs = 5

\* C17: a 403 causes the identity to be rotated before the retry: the
\* request that follows a 403 is sent with a different identity from the
\* one that received the 403.
C17_RotateBeforeRetry ==
    (fpc = "await" /\ f_last = 403) => f_browser # f_blockedAs

\* C18: any status other than 200, 404, 429, 520 and 403, and any non-200
\* status still present after the retries are used up, raises an error for
\* that fetch call; get_data never returns rows parsed from a non-200
\* response.
C18_OtherStatusRaises ==
    /\ f_out.kind = "rows" => f_out.status = 200
    /\ f_out.status \in ArchiveStatuses \ {200, 404} =>
          /\ f_out.kind = "RuntimeError"
          /\ fpc = "raised"

\* the retries were used up on a status that is retried
C18_Witness ==
    /\ fpc = "raised"
    /\ f_out.kind = "RuntimeError"
    /\ f_out.status = 429
    /\ f_net = 5

RECURSIVE SumLens(_, _)
SumLens(data, keys) ==
    IF keys = {} THEN 0
    ELSE LET key == CHOOSE x \in keys : TRUE
         IN Len(data[key]) + SumLens(data, keys \ {key})

\* C19: the price index is multi-valued and never overwrites by key:
\* built from the network or from the cache, every parsed row appears
\* exactly once, in arrival order, in the list under its (region, date,
\* off) key, so the list lengths add up to the number of rows.
C19_IndexMultiValued ==
    /\ DOMAIN f_data = {KeyOf(f_rows[i]) : i \in 1..Len(f_rows)}
    /\ \A key \in DOMAIN f_data :
          LET HasKey(bsp) == KeyOf(bsp) = key
          IN f_data[key] = SelectSeq(f_rows, HasKey)
    /\ SumLens(f_data, DOMAIN f_data) = Len(f_rows)

\* an index read back from the cache with two runners under one key
C19_Witness ==
    /\ fpc = "ready"
    /\ f_hadCache
    /\ Cardinality(DOMAIN f_data) >= 2
    /\ \E key \in DOMAIN f_data :
          /\ Len(f_data[key]) = 2
          /\ f_data[key][1] # f_data[key][2]

\* C20: when the price cache is present the index is loaded from it and no
\* request to the price archive is made; the cache file is created only
\* after every (date, region) fetch of the run has completed.
C20_CacheBeforeNetwork ==
    /\ f_hadCache =>
          /\ f_net = 0
          /\ fpc = "ready"
          /\ f_rows = CachedRows
    /\ f_cacheExists => f_fetchedAtOpen = Len(PriceFiles)

C20_Witness ==
    /\ f_runs = 2
    /\ f_hadCache
    /\ fpc = "ready"
    /\ Len(f_rows) >= 3

\* the transitions of the state machine: Idle is "idle", Attempting is
\* "attempting", Retrying is "sleep", Success and Exhausted are "returned"
\* and "raised"; "check" is the test of the while loop
StateMachineEdges ==
    {<<"idle", "check">>, <<"check", "attempting">>,
     <<"attempting", "returned">>, <<"attempting", "sleep">>,
     <<"attempting", "check">>, <<"sleep", "check">>,
     <<"check", "returned">>, <<"check", "raised">>,
     <<"returned", "check">>, <<"raised", "check">>}

\* C27: get follows the state machine Idle -> Attempting -> {Success |
\* Retrying -> Attempting | Exhausted}: provided the clock advances and
\* each HTTP attempt completes, every call eventually reaches Success (a
\* returned non-retryable response) or Exhausted (the last retryable
\* response returned, or an error raised), and never leaves it.
C27_CallTerminates ==
    /\ InCall ~> Terminal
    /\ [][gpc' # gpc => <<gpc, gpc'>> \in StateMachineEdges]_vars
    /\ [][(Terminal /\ calls' = calls) =>
             (gpc' = gpc /\ result' = result)]_vars
    /\ [](gpc = "returned" =>
             /\ result.kind = "return"
             /\ \/ sawFinal /\ result.status \notin {406, 429, 500, 502, 503, 504}
                \/ /\ ~sawFinal /\ now >= deadline
                   /\ result.status \in {406, 429, 500, 502, 503, 504})
    /\ [](gpc = "raised" => result.kind = "raise")

\* Exhausted after two rounds of Retrying
C27_Witness ==
    /\ gpc = "returned"
    /\ ~sawFinal
    /\ sleeps >= 2
    /\ result.status = 502

(***************************************************************************)
(* Claims about calculate_backoff (checked under BackoffSpec)              *)
(***************************************************************************)
\* C10: calculate_backoff(attempt, base_delay, max_delay) is
\* min(base_delay * 2^attempt, max_delay) plus a jitter of 0 to 25% of it:
\* for every attempt >= 0 it is at least that minimum and at most
\* max_delay * 1.25, and the jitter-free part is non-decreasing in attempt.
C10_BackoffBounds ==
    bpc = "done" =>
        /\ b_result.exc = "none"
        /\ b_result.value >= DoubleUpTo(b_base, b_attempt, b_max)
        /\ 100 * b_result.value <= 125 * b_max
        /\ DoubleUpTo(b_base, b_attempt, b_max)
              <= DoubleUpTo(b_base, b_attempt + 1, b_max)

\* the call ended because the while condition failed
DeadlineExhausted ==
    /\ Terminal
    /\ ~sawFinal
    /\ result.exc # "OverflowError"

\* C28: a transport error is sticky.  If any attempt of the call raised a
\* transport exception, the call raises NetworkError at exhaustion, whatever
\* the later attempts returned; the call returns the last retryable
\* (status, response) or raises Persistent406Error only if no attempt
\* raised one, and which of the two depends only on whether the last
\* status seen is 406.
C28_TransportErrorSticky ==
    DeadlineExhausted =>
        /\ sawError => result.exc = "NetworkError"
        /\ (result.kind = "return" \/ result.exc = "Persistent406Error")
              => ~sawError
        /\ result.exc = "Persistent406Error" => last_status = 406
        /\ result.kind = "return" =>
              /\ last_status # 406
              /\ result.status = last_status
              /\ result.response.status_code = last_status
        /\ (~sawError /\ started > 0) =>
              IF last_status = 406
              THEN result.exc = "Persistent406Error"
              ELSE result.kind = "return"

\* a transport error, then a retryable status on the last attempt, and
\* NetworkError at the deadline
C28_Witness ==
    /\ gpc = "raised"
    /\ result.exc = "NetworkError"
    /\ sawError
    /\ lastSeen \in {406, 429, 500, 502, 503, 504}
    /\ started >= 2

\* C29: get performs at least one HTTP attempt before it terminates, for
\* every max_hours including 0, so that whenever it returns
\* (status, response) the response was received during this call and
\* status is that response's status code.
C29_AtLeastOneAttempt ==
    Terminal =>
        /\ started >= 1
        /\ result.kind = "return" =>
              /\ result.response # Unbound
              /\ result.response.id \in 1..started
              /\ result.status = result.response.status_code

InGetData == fpc \in {"await", "parse"}

\* C30: get_data always terminates after a bounded number of requests:
\* whatever the statuses of the responses, it sends at most 5 requests for
\* one url (the first and at most 4 retries) and then returns rows,
\* returns None or raises.
C30_GetDataTerminates ==
    /\ InGetData ~> ~InGetData
    /\ [](f_reqs <= 5)
    /\ [][f_reqs' > f_reqs => (f_reqs' = f_reqs + 1 /\ f_net' = f_net + 1)]_vars
    /\ [][(InGetData /\ ~InGetData' /\ fpc' # "killed") =>
             /\ f_out'.kind \in {"rows", "None", "RuntimeError",
                                  "RequestsError"}
             /\ fpc' = "raised" <=>
                   f_out'.kind \in {"RuntimeError", "RequestsError"}]_vars

\* rows are returned from the answer to the fifth request of the first url
C30_Witness ==
    /\ f_out.kind = "rows"
    /\ f_done = 1
    /\ f_net = 5

OffTime(t) ==
    LET parsed == TotalMins(normalize_time(t))
    IN IF parsed.ok THEN parsed.mins ELSE -1

\* market i has a venue that contains or is contained in the venue of the
\* race, after normalization, and an off time within the tolerance
VenueAndTimeFit(i) ==
    LET rv == normalize_venue(mr_venue)
        mv == normalize_venue(mr_markets[i].venue)
    IN /\ str_in(rv, mv) \/ str_in(mv, rv)
       /\ OffTime(mr_time) >= 0
       /\ OffTime(mr_markets[i].start_time) >= 0
       /\ Abs(OffTime(mr_time) - OffTime(mr_markets[i].start_time))
             <= DefaultTolerance

\* the first of the markets of Q that are nearest in time: <<>> when Q is
\* empty
NearestFirst(Q) ==
    IF Q = {} THEN <<>>
    ELSE LET Delta(i) == Abs(OffTime(mr_time)
                                - OffTime(mr_markets[i].start_time))
             i == CHOOSE k \in Q :
                     \A j \in Q : \/ Delta(k) < Delta(j)
                                   \/ (Delta(k) = Delta(j) /\ k <= j)
         IN <<mr_markets[i]>>

\* C21 as stated: match_race_to_market returns, among the markets whose
\* normalized venue contains or is contained in the normalized venue of the
\* race and whose off time differs by at most the tolerance, the one with
\* the smallest difference, the first in list order on a tie, and None when
\* no market qualifies.
C21_NearestOfContaining ==
    mr_pc = "done" =>
        mr_result = NearestFirst({i \in 1..Len(mr_markets) :
                                     VenueAndTimeFit(i)})

\* C21 amended: the same, where a market qualifies only if its normalized
\* venue is not empty, and no market qualifies when the normalized venue of
\* the race is empty; for Ascot 14:30 with candidates Ascot 14:32 and Ascot
\* 14:40 the 14:32 market is returned.
C21_NearestOfNamed ==
    mr_pc = "done" =>
        /\ mr_result =
              NearestFirst({i \in 1..Len(mr_markets) :
                               /\ VenueAndTimeFit(i)
                               /\ normalize_venue(mr_venue) # <<>>
                               /\ normalize_venue(mr_markets[i].venue)
                                     # <<>>})
        /\ (/\ mr_venue = Ascot /\ mr_time = Clock(14, 30)
            /\ mr_markets =
                  <<[venue |-> Ascot, start_time |-> Clock(14, 32)],
                    [venue |-> Ascot, start_time |-> Clock(14, 40)]>>)
              => mr_result =
                    <<[venue |-> Ascot, start_time |-> Clock(14, 32)]>>

\* the example of the specification
C21_Witness ==
    /\ mr_pc = "done"
    /\ mr_venue = Ascot /\ mr_time = Clock(14, 30)
    /\ mr_markets = <<[venue |-> Ascot, start_time |-> Clock(14, 32)],
                      [venue |-> Ascot, start_time |-> Clock(14, 40)]>>
    /\ mr_result = <<mr_markets[1]>>

RECURSIVE CountOf(_, _)
\* how many entries of log are outcome
CountOf(log, outcome) ==
    IF log = <<>> THEN 0
    ELSE (IF Head(log) = outcome THEN 1 ELSE 0) + CountOf(Tail(log), outcome)

\* C24: match_races_to_betfair tolerates partial failure: a race with
\* missing fields, without a matching market, without runners, or whose
\* auto-match call fails is skipped without affecting the other races, and
\* races_matched = number of races whose auto-match returned without error
\* <= total_races = number of races passed in.
C24_PartialFailureTolerated ==
    /\ races_matched = CountOf(bm_log, "matched")
    /\ Len(bm_log) = bm_i - 1
    /\ \A k \in 1..Len(bm_log) :
          /\ bm_log[k] = "missing fields" <=> ~AllFields(bm_races[k])
          /\ bm_log[k] = "no market" <=>
                /\ AllFields(bm_races[k])
                /\ match_race_to_market(VenueOf(bm_races[k]),
                                        bm_races[k].off_time, bm_markets,
                                        DefaultTolerance) = <<>>
    /\ (bm_pc = "done" /\ bm_markets # <<>>) =>
          /\ Len(bm_log) = Len(bm_races)
          /\ bm_stats.races_matched = CountOf(bm_log, "matched")
          /\ bm_stats.races_matched <= bm_stats.total_races
          /\ bm_stats.total_races = Len(bm_races)
          /\ bm_stats.markets_found = Len(bm_markets)
    /\ (bm_pc = "done" /\ bm_markets = <<>>) =>
          /\ bm_stats.races_matched = 0
          /\ bm_stats.total_races = Len(bm_races)

\* a race is matched after each kind of skip
C24_Witness ==
    /\ bm_pc = "done"
    /\ bm_log = <<"no runners", "auto-match failed", "matched">>
    /\ bm_stats.races_matched = 1
    /\ bm_stats.total_races = 3
    /\ bm_stats.runners_matched = 2

(***************************************************************************)
(* Claims about the profile fetcher (checked under ProfilesSpec)           *)
(***************************************************************************)
\* the response is a 200 whose script carries a json dict with every key
\* that get_profiles reads
ParsesCorrectly(resp) ==
    /\ resp.exc = "none" /\ resp.status = 200 /\ resp.script = "text"
    /\ \E k \in 1..Len(Payloads) :
          /\ resp.text = <<Sym("var"), Marker, Sym(" "), JsonText(k),
                           Sym(";"), Sym("\n"), Sym("more")>>
          /\ Payloads[k].keys = {"profile", "quotes", "stableTourQuotes"}
          /\ Payloads[k].uid # 0

\* the fetch is non-200 or the script deviates
Deviates(resp) == resp.exc = "none" /\ ~ParsesCorrectly(resp)

\* C23: get_profiles isolates per-profile failures: a profile whose fetch
\* is non-200 or whose embedded script deviates in any way (no script
\* element, no marker, malformed json, missing keys in the payload) is
\* absent from the result, the batch is never aborted, and every other
\* profile of the batch that parses correctly is present in the result.
C23_ProfileFailuresIsolated ==
    /\ (pf_pc = "raised" /\ pf_log # <<>>) =>
          ~Deviates(pf_log[Len(pf_log)].resp)
    /\ pf_pc = "returned" =>
          \A k \in 1..Len(pf_log) :
             LET here == \E u \in DOMAIN profiles :
                            profiles[u] = Provenance(ProfileUrls[k])
             IN /\ Deviates(pf_log[k].resp) => ~here
                /\ ParsesCorrectly(pf_log[k].resp) =>
                      Payloads[pf_log[k].resp.text[4].n].uid
                         \in DOMAIN profiles

====
